---------------------------- MODULE Spec2Model ----------------------------
(***************************************************************************)
(* A model of pcb_forge: the motion emitter (GCodeFile::to_string), the    *)
(* Gerber toolpath planner (GerberFile::generate_gcode) and the job        *)
(* orchestrator (build / main).                                            *)
(*                                                                         *)
(* Lengths are integers counted in half millimetres (0.5 mm = 1), so the   *)
(* f64 arithmetic of the source is exact on the values used here.          *)
(* A printed number is a pair <<m, i>>: m counted in the metric unit and i *)
(* counted in the imperial unit (get::<millimeter>() fills the first,      *)
(* get::<mil>() the second); the two conversion factors are                *)
(* incommensurable, so two printed numbers are equal exactly when the      *)
(* pairs are.                                                              *)
(***************************************************************************)
EXTENDS Integers, Sequences, FiniteSets, TLC

VARIABLES
    commands,   \* GCodeFile.commands: the queue, as far as it has been consumed
    em,         \* the locals of GCodeFile::to_string
    x_offset,   \* the argument of GCodeFile::to_string
    stage,      \* the stage being planned: polygon model, job, tool, kind
    gcode,      \* the Vec<GCommand> the planner pushes to
    phase,      \* where the run is
    forge,      \* the forge file: the output files, sorted by path, with their stages
    cursor,     \* build's position in the forge file: [file, stage]
    bounds_x,   \* build's [min_x, max_x]
    written,    \* the output files written so far
    process,    \* the process: build's result, the log and the exit code
    input,      \* the arguments of a function of the imaging pipeline or a parser
    result      \* what the function returned

emitVars == <<commands, em, x_offset>>

planVars == <<stage, gcode, phase>>

buildVars == <<forge, cursor, bounds_x, written, process>>

fnVars == <<input, result>>

vars == <<commands, em, x_offset, stage, gcode, phase, forge, cursor, bounds_x,
          written, process, input, result>>

-----------------------------------------------------------------------------
(* Bounds of the model.                                                    *)

MaxQueue == 4

-----------------------------------------------------------------------------
(* Values.                                                                 *)

NoDepth == [some |-> FALSE, v |-> 0]

SomeDepth(d) == [some |-> TRUE, v |-> d]

ToolNone ==
    [kind |-> "None", max_power |-> 0, max_spindle_speed |-> 0, plunge_speed |-> 0,
     travel_height |-> 0, cut_depth |-> 0, pass_depth |-> NoDepth]

ToolLaser(max_power) ==
    [kind |-> "Laser", max_power |-> max_power, max_spindle_speed |-> 0,
     plunge_speed |-> 0, travel_height |-> 0, cut_depth |-> 0, pass_depth |-> NoDepth]

ToolSpindle(max_spindle_speed, plunge_speed, travel_height, cut_depth, pass_depth) ==
    [kind |-> "Spindle", max_power |-> 0, max_spindle_speed |-> max_spindle_speed,
     plunge_speed |-> plunge_speed, travel_height |-> travel_height,
     cut_depth |-> cut_depth, pass_depth |-> pass_depth]

\* GCommand: one record shape for all variants; the unused fields are zero.
Cmd(type) ==
    [type |-> type, tool |-> ToolNone, v |-> 0, pass_index |-> 0,
     target |-> <<0, 0>>, mode |-> "Metric", path |-> <<"", "">>, side |-> "Front"]

CmdEquipTool(t) == [Cmd("EquipTool") EXCEPT !.tool = t]

CmdSetRapidTransverseSpeed(v) == [Cmd("SetRapidTransverseSpeed") EXCEPT !.v = v]

CmdSetWorkSpeed(v) == [Cmd("SetWorkSpeed") EXCEPT !.v = v]

CmdSetPower(p) == [Cmd("SetPower") EXCEPT !.v = p]

CmdSetSpindleSpeed(v) == [Cmd("SetSpindleSpeed") EXCEPT !.v = v]

CmdCut(k, p) == [Cmd("Cut") EXCEPT !.pass_index = k, !.target = p]

CmdMoveTo(p) == [Cmd("MoveTo") EXCEPT !.target = p]

CmdUnitMode(m) == [Cmd("UnitMode") EXCEPT !.mode = m]

CmdIncludeFile(path) == [Cmd("IncludeFile") EXCEPT !.path = path]

CmdSetSide(side) == [Cmd("SetSide") EXCEPT !.side = side]

-----------------------------------------------------------------------------
(* Printed numbers and output lines.                                       *)

\* x.get::<millimeter>() under Metric, x.get::<mil>() under Imperial.
InUnit(unit_mode, v) == IF unit_mode = "Metric" THEN <<v, 0>> ELSE <<0, v>>

NumNeg(n) == <<-n[1], -n[2]>>

NumAdd(n, m) == <<n[1] + m[1], n[2] + m[2]>>

Zero == <<0, 0>>

\* One line of output. `by` is the position in the queue of the command that
\* wrote the line (0 for the header).
Line(op, a, b, by) == [op |-> op, a |-> a, b |-> b, by |-> by]

Writeln(s, op, a, b) ==
    [s EXCEPT !.output = Append(@, Line(op, a, b, s.n))]

Bail(s, msg) == [s EXCEPT !.result = "Err", !.error = msg]

\* `f as usize` for a quotient num / den of integers with den > 0: truncation,
\* saturating at 0 for a negative value.
AsUsizeOfQuotient(num, den) == IF num < 0 THEN 0 ELSE num \div den

\* `f as usize` for the quotient num / den of two integers, den # 0.
AsUsize(num, den) ==
    IF den > 0 THEN AsUsizeOfQuotient(num, den) ELSE AsUsizeOfQuotient(-num, -den)

\* f64::INFINITY, as an integer above every length of the model.
Infinity == 1000000

\* a - b on f64, for b finite or +Infinity and a finite or -Infinity.
FloatSub(a, b) == IF a = -Infinity \/ b = Infinity THEN -Infinity ELSE a - b

\* PathBuf::join: a path is a pair <<directory, file name>>.
Join(directory, name) == <<directory, name>>

\* The include files on disk: path -> lines; a path outside the domain cannot
\* be read.
IncludeFiles ==
    [p \in {<<"forge", "init.gcode">>, <<"forge", "shutdown.gcode">>} |->
        IF p[2] = "init.gcode" THEN <<"G28">> ELSE <<"M5", "G28">>]


-----------------------------------------------------------------------------
(* GCodeFile::to_string: the state before the loop, and one operator per   *)
(* arm of the match on the command.                                        *)

\* x_offset is resolved once, before the loop, under the initial unit mode.
ResolveXOffset(offset) == InUnit("Metric", offset)

EmitterInit ==
    [unit_mode |-> "Metric", board_side |-> "Front", tool_is_ready_to_cut |-> FALSE,
     work_speed |-> 0, tool |-> ToolNone, position |-> <<0, 0>>, n |-> 0,
     output |-> <<Line("G90", Zero, Zero, 0), Line("G0XY", Zero, Zero, 0)>>,
     result |-> "Running", error |-> ""]

\* Disengage the tool if it is engaged (the code repeats this in EquipTool and MoveTo).
Disengage(s) ==
    IF ~s.tool_is_ready_to_cut THEN s
    ELSE CASE s.tool.kind = "Laser" ->
                [Writeln(s, "M5", Zero, Zero) EXCEPT !.tool_is_ready_to_cut = FALSE]
           [] s.tool.kind = "Spindle" ->
                [Writeln(s, "G0Z", InUnit(s.unit_mode, s.tool.travel_height), Zero)
                    EXCEPT !.tool_is_ready_to_cut = FALSE]
           [] OTHER -> s

\* Mutant of EquipTool: un-equipping (EquipTool(None)) leaves the old tool in place.
EquipTool_KeepsToolOnNone(s, new_tool) ==
    LET s1 == Disengage(s)
        s2 == IF new_tool.kind = "None" THEN s1 ELSE [s1 EXCEPT !.tool = new_tool]
    IN  CASE new_tool.kind = "Laser" ->
                [Writeln(s2, "M5", Zero, Zero) EXCEPT !.tool_is_ready_to_cut = FALSE]
          [] new_tool.kind = "Spindle" ->
                [Writeln(s2, "G0Z", InUnit(s2.unit_mode, new_tool.travel_height), Zero)
                    EXCEPT !.tool_is_ready_to_cut = FALSE]
          [] OTHER -> s2

EquipTool(s, new_tool) ==
    LET s1 == Disengage(s)
        s2 == [s1 EXCEPT !.tool = new_tool]
    IN  CASE new_tool.kind = "Laser" ->
                [Writeln(s2, "M5", Zero, Zero) EXCEPT !.tool_is_ready_to_cut = FALSE]
          [] new_tool.kind = "Spindle" ->
                [Writeln(s2, "G0Z", InUnit(s2.unit_mode, new_tool.travel_height), Zero)
                    EXCEPT !.tool_is_ready_to_cut = FALSE]
          [] OTHER -> s2

SetRapidTransverseSpeed(s, speed) ==
    Writeln(s, "G0F", InUnit(s.unit_mode, speed), Zero)

SetWorkSpeed(s, speed) ==
    Writeln([s EXCEPT !.work_speed = speed], "G1F", InUnit(s.unit_mode, speed), Zero)

SetPower(s, power) ==
    IF s.tool.kind = "Laser"
    THEN LET percentage == AsUsizeOfQuotient(100 * power, s.tool.max_power)
             pwm_scale == AsUsizeOfQuotient(255 * power, s.tool.max_power)
             s1 == [s EXCEPT !.tool_is_ready_to_cut = FALSE]
             s2 == Writeln(s1, "M3PS", <<percentage, 0>>, <<pwm_scale, 0>>)
         IN  Writeln(s2, "M5", Zero, Zero)
    ELSE Bail(s, "Attempt to set power of non-laser tool.")

Abs(v) == IF v < 0 THEN -v ELSE v

SetSpindleSpeed(s, speed) ==
    IF s.tool.kind = "Spindle"
    THEN LET percentage == AsUsizeOfQuotient(100 * Abs(speed), s.tool.max_spindle_speed)
             pwm_scale == AsUsizeOfQuotient(255 * Abs(speed), s.tool.max_spindle_speed)
             s1 == [s EXCEPT !.tool_is_ready_to_cut = FALSE]
         IN  IF speed >= 0
             THEN Writeln(s1, "M3PS", <<percentage, 0>>, <<pwm_scale, 0>>)
             ELSE Writeln(s1, "M4PS", <<percentage, 0>>, <<pwm_scale, 0>>)
    ELSE Bail(s, "Attempt to set speed of non-spindle tool.")

\* Mutant of MirrorX: the back side negates X without adding the offset.
MirrorX_WithoutOffset(board_side, x, offset) ==
    IF board_side = "Front" THEN x ELSE NumNeg(x)

\* Side mirroring of a printed X: -x + x_offset on the back side (an infinite
\* x_offset absorbs x).
MirrorX(board_side, x, offset) ==
    IF board_side = "Front" THEN x
    ELSE IF offset \in {Infinity, -Infinity} THEN ResolveXOffset(offset)
         ELSE NumAdd(NumNeg(x), ResolveXOffset(offset))

\* Mutant of TargetDepth: the first pass already plunges by one pass_depth.
TargetDepth_OnePassDeeper(tool, pass_index) ==
    IF tool.pass_depth.some
    THEN tool.travel_height - tool.pass_depth.v * (pass_index + 1)
    ELSE tool.cut_depth

\* The plunge depth of a spindle for a pass.
TargetDepth(tool, pass_index) ==
    IF tool.pass_depth.some
    THEN tool.travel_height - tool.pass_depth.v * pass_index
    ELSE tool.cut_depth

\* Engage the tool before a cut, if it is not engaged.
Engage(s, pass_index) ==
    IF s.tool_is_ready_to_cut THEN s
    ELSE CASE s.tool.kind = "Laser" ->
                [Writeln(s, "M3", Zero, Zero) EXCEPT !.tool_is_ready_to_cut = TRUE]
           [] s.tool.kind = "Spindle" ->
                LET s1 == Writeln(s, "G1ZF",
                                  InUnit(s.unit_mode, TargetDepth(s.tool, pass_index)),
                                  InUnit(s.unit_mode, s.tool.plunge_speed))
                    s2 == Writeln(s1, "G1F", InUnit(s.unit_mode, s.work_speed), Zero)
                IN  [s2 EXCEPT !.tool_is_ready_to_cut = TRUE]
           [] OTHER -> s

\* Mutant of Cut: the laser is switched off again after every cut.
Cut_SwitchesOffAfter(s, pass_index, target, offset) ==
    IF s.tool.kind = "None" THEN Bail(s, "No tool is equipped.")
    ELSE LET s1 == Engage(s, pass_index)
             s2 == [s1 EXCEPT !.position = target]
             x == MirrorX(s2.board_side, InUnit(s2.unit_mode, target[1]), offset)
             y == InUnit(s2.unit_mode, target[2])
         IN  Disengage(Writeln(s2, "G1XY", x, y))

Cut(s, pass_index, target, offset) ==
    IF s.tool.kind = "None" THEN Bail(s, "No tool is equipped.")
    ELSE LET s1 == Engage(s, pass_index)
             s2 == [s1 EXCEPT !.position = target]
             x == MirrorX(s2.board_side, InUnit(s2.unit_mode, target[1]), offset)
             y == InUnit(s2.unit_mode, target[2])
         IN  Writeln(s2, "G1XY", x, y)

MoveTo(s, target, offset) ==
    IF s.position # target
    THEN IF s.tool.kind = "None" THEN Bail(s, "No tool is equipped.")
         ELSE LET s1 == Disengage(s)
                  s2 == [s1 EXCEPT !.position = target]
                  x == MirrorX(s2.board_side, InUnit(s2.unit_mode, target[1]), offset)
                  y == InUnit(s2.unit_mode, target[2])
              IN  Writeln(s2, "G0XY", x, y)
    ELSE \* We're already there.
         [s EXCEPT !.tool_is_ready_to_cut = FALSE]

UnitMode(s, new_mode) ==
    LET s1 == [s EXCEPT !.unit_mode = new_mode]
    IN  IF new_mode = "Metric" THEN Writeln(s1, "G21", Zero, Zero)
        ELSE Writeln(s1, "G22", Zero, Zero)

RECURSIVE Splice(_, _)
Splice(s, content) ==
    IF content = <<>> THEN s
    ELSE Splice(Writeln(s, Head(content), Zero, Zero), Tail(content))

IncludeFile(s, file_path) ==
    IF file_path \in DOMAIN IncludeFiles
    THEN Splice(s, IncludeFiles[file_path])
    ELSE Bail(s, "Failed to read include file")

SetSide(s, new_side) == [s EXCEPT !.board_side = new_side]

\* One iteration of the loop over the queue.
Step(s, c, offset) ==
    LET s1 == [s EXCEPT !.n = @ + 1]
    IN  CASE c.type = "EquipTool" -> EquipTool(s1, c.tool)
          [] c.type = "SetRapidTransverseSpeed" -> SetRapidTransverseSpeed(s1, c.v)
          [] c.type = "SetWorkSpeed" -> SetWorkSpeed(s1, c.v)
          [] c.type = "SetPower" -> SetPower(s1, c.v)
          [] c.type = "SetSpindleSpeed" -> SetSpindleSpeed(s1, c.v)
          [] c.type = "Cut" -> Cut(s1, c.pass_index, c.target, offset)
          [] c.type = "MoveTo" -> MoveTo(s1, c.target, offset)
          [] c.type = "UnitMode" -> UnitMode(s1, c.mode)
          [] c.type = "IncludeFile" -> IncludeFile(s1, c.path)
          [] OTHER -> SetSide(s1, c.side)

\* The whole of to_string on a queue: the loop stops at the first error.
RECURSIVE Fold(_, _, _)
Fold(s, cmds, offset) ==
    IF cmds = <<>> \/ s.result = "Err" THEN s
    ELSE Fold(Step(s, Head(cmds), offset), Tail(cmds), offset)

to_string(cmds, offset) ==
    LET s == Fold(EmitterInit, cmds, offset)
    IN  IF s.result = "Err" THEN s ELSE [s EXCEPT !.result = "Ok"]

-----------------------------------------------------------------------------
(* Geometry of the polygon model: a MultiPolygon is a sequence of polygons *)
(* [exterior |-> ring, interiors |-> <<ring, ...>>]; a ring is a closed    *)
(* sequence of points (its last point is its first).                       *)

Min(a, b) == IF a < b THEN a ELSE b

Max(a, b) == IF a > b THEN a ELSE b

\* The square of (a - b).norm(); the planner only compares distances.
NormSq(a, b) == (a[1] - b[1]) * (a[1] - b[1]) + (a[2] - b[2]) * (a[2] - b[2])

\* All vertices of a MultiPolygon.
Vertices(polygon) ==
    UNION {{polygon[i].exterior[k] : k \in 1..Len(polygon[i].exterior)}
              \cup UNION {{polygon[i].interiors[h][k] :
                              k \in 1..Len(polygon[i].interiors[h])} :
                          h \in 1..Len(polygon[i].interiors)} :
           i \in 1..Len(polygon)}

\* polygon.bounding_rect(): <<min, max>>, or <<>> for None.
BoundingRect(polygon) ==
    LET V == Vertices(polygon)
    IN  IF V = {} THEN <<>>
        ELSE <<<<CHOOSE x \in {v[1] : v \in V} : \A w \in V : x <= w[1],
                 CHOOSE y \in {v[2] : v \in V} : \A w \in V : y <= w[2]>>,
               <<CHOOSE x \in {v[1] : v \in V} : \A w \in V : x >= w[1],
                 CHOOSE y \in {v[2] : v \in V} : \A w \in V : y >= w[2]>>>>

\* p lies on the segment a-b.
OnSegment(p, a, b) ==
    /\ (b[1] - a[1]) * (p[2] - a[2]) = (b[2] - a[2]) * (p[1] - a[1])
    /\ Min(a[1], b[1]) <= p[1] /\ p[1] <= Max(a[1], b[1])
    /\ Min(a[2], b[2]) <= p[2] /\ p[2] <= Max(a[2], b[2])

OnRing(p, ring) ==
    \E i \in 1..(Len(ring) - 1) : OnSegment(p, ring[i], ring[i + 1])

\* The ray from p towards +x crosses the edge a-b.
RayCrosses(p, a, b) ==
    /\ (a[2] > p[2]) # (b[2] > p[2])
    /\ IF b[2] > a[2]
       THEN (p[1] - a[1]) * (b[2] - a[2]) < (b[1] - a[1]) * (p[2] - a[2])
       ELSE (p[1] - a[1]) * (b[2] - a[2]) > (b[1] - a[1]) * (p[2] - a[2])

InsideRing(p, ring) ==
    /\ ~OnRing(p, ring)
    /\ Cardinality({i \in 1..(Len(ring) - 1) : RayCrosses(p, ring[i], ring[i + 1])}) % 2 = 1

\* MultiPolygon::contains(&Coord): inside an exterior and neither inside nor on a hole.
Contains(polygon, p) ==
    \E i \in 1..Len(polygon) :
        /\ InsideRing(p, polygon[i].exterior)
        /\ \A h \in 1..Len(polygon[i].interiors) :
              /\ ~InsideRing(p, polygon[i].interiors[h])
              /\ ~OnRing(p, polygon[i].interiors[h])

\* Vec::remove(index)
Remove(seq, index) ==
    [i \in 1..(Len(seq) - 1) |-> IF i < index THEN seq[i] ELSE seq[i + 1]]

-----------------------------------------------------------------------------
(* The toolpath planner of a Gerber stage: GerberFile::generate_gcode from *)
(* the pass count on, and add_point_string_to_gcode_vector.                *)

add_point_string_to_gcode_vector(points, pass_index) ==
    IF points = <<>> THEN <<>>
    ELSE <<CmdMoveTo(points[1])>>
            \o [i \in 1..(Len(points) - 1) |-> CmdCut(pass_index, points[i + 1])]

\* Mutant of NearestStart: the first of the start points is taken.
NearestStart_TakesFirst(starts, last_position) == 1

\* The index of the first of the start points that is nearest to last_position
\* (the scan keeps a candidate only when it is strictly nearer).
NearestStart(starts, last_position) ==
    CHOOSE i \in 1..Len(starts) :
        /\ \A k \in 1..Len(starts) :
              NormSq(starts[i], last_position) <= NormSq(starts[k], last_position)
        /\ \A k \in 1..(i - 1) :
              NormSq(starts[k], last_position) > NormSq(starts[i], last_position)

\* The loop over the interiors of one polygon: [commands, last_position].
RECURSIVE TraceInteriors(_, _, _)
TraceInteriors(interior_list, last_position, pass_index) ==
    IF interior_list = <<>>
    THEN [commands |-> <<>>, last_position |-> last_position]
    ELSE LET interior_index ==
                 NearestStart([i \in 1..Len(interior_list) |-> interior_list[i][1]],
                              last_position)
             interior == interior_list[interior_index]
             rest == TraceInteriors(Remove(interior_list, interior_index),
                                    interior[1], pass_index)
         IN  [commands |-> add_point_string_to_gcode_vector(interior, pass_index)
                              \o rest.commands,
              last_position |-> rest.last_position]

\* The loop over the polygons: the commands of the outlines of one pass.
RECURSIVE TraceOutlines(_, _, _)
TraceOutlines(polygon_list, last_position, pass_index) ==
    IF polygon_list = <<>> THEN <<>>
    ELSE LET polygon_index ==
                 NearestStart([i \in 1..Len(polygon_list) |-> polygon_list[i].exterior[1]],
                              last_position)
             polygon == polygon_list[polygon_index]
             inner == TraceInteriors(polygon.interiors, polygon.exterior[1], pass_index)
         IN  add_point_string_to_gcode_vector(polygon.exterior, pass_index)
                \o inner.commands
                \o TraceOutlines(Remove(polygon_list, polygon_index),
                                 inner.last_position, pass_index)

\* The sample coordinates lo, lo + step, .. below hi (the `while x < max_x` loops).
Samples(lo, hi, step) ==
    [k \in 1..(IF hi <= lo THEN 0 ELSE ((hi - lo - 1) \div step) + 1) |->
        lo + (k - 1) * step]

\* One scanline: blank[k] is `!polygon.contains(&point) ^ invert` at sample k;
\* start and end are Options (<<>> or <<v>>). A run is pushed when a sample
\* that is not blank follows it.
RECURSIVE ScanFrom(_, _, _, _, _)
ScanFrom(coords, blank, k, start, end) ==
    IF k > Len(coords) THEN <<>>
    ELSE IF blank[k]
         THEN ScanFrom(coords, blank, k + 1,
                       IF start = <<>> THEN <<coords[k]>> ELSE start, <<coords[k]>>)
         ELSE IF start # <<>> /\ end # <<>>
              THEN <<<<start[1], end[1]>>>> \o ScanFrom(coords, blank, k + 1, <<>>, <<>>)
              ELSE ScanFrom(coords, blank, k + 1, <<>>, <<>>)

RECURSIVE Flatten(_)
Flatten(seqs) == IF seqs = <<>> THEN <<>> ELSE Head(seqs) \o Flatten(Tail(seqs))

\* The infill lines of one pass: horizontal slicing on even passes, vertical on odd.
InfillLines(polygon, invert, pass_index, min_x, min_y, max_x, max_y, step) ==
    LET xs == Samples(min_x, max_x, step)
        ys == Samples(min_y, max_y, step)
    IN  IF pass_index % 2 = 0
        THEN Flatten([j \in 1..Len(ys) |->
                LET runs == ScanFrom(xs,
                                [k \in 1..Len(xs) |->
                                    (~Contains(polygon, <<xs[k], ys[j]>>)) # invert],
                                1, <<>>, <<>>)
                IN  [r \in 1..Len(runs) |->
                        [start |-> <<runs[r][1], ys[j]>>, end |-> <<runs[r][2], ys[j]>>]]])
        ELSE Flatten([j \in 1..Len(xs) |->
                LET runs == ScanFrom(ys,
                                [k \in 1..Len(ys) |->
                                    (~Contains(polygon, <<xs[j], ys[k]>>)) # invert],
                                1, <<>>, <<>>)
                IN  [r \in 1..Len(runs) |->
                        [start |-> <<xs[j], runs[r][1]>>, end |-> <<xs[j], runs[r][2]>>]]])

\* The sorting loop: the nearest end point of any line is moved to, and the
\* line is cut to its other end.
RECURSIVE SortInfill(_, _, _)
SortInfill(lines, last_position, pass_index) ==
    IF lines = <<>> THEN <<>>
    ELSE LET ends == [i \in 1..(2 * Len(lines)) |->
                        IF i % 2 = 1 THEN lines[(i + 1) \div 2].start
                        ELSE lines[i \div 2].end]
             pick == NearestStart(ends, last_position)
             index == (pick + 1) \div 2
             line == lines[index]
             from == IF pick % 2 = 1 THEN line.start ELSE line.end
             to == IF pick % 2 = 1 THEN line.end ELSE line.start
         IN  <<CmdMoveTo(from), CmdCut(pass_index, to)>>
                \o SortInfill(Remove(lines, index), to, pass_index)

\* Mutant of EndMillPasses: the quotient is rounded up.
EndMillPasses_RoundsUp(travel_height, cut_depth, pass_depth) ==
    IF pass_depth.some
    THEN AsUsize(travel_height - cut_depth + pass_depth.v - 1, pass_depth.v)
    ELSE 1

\* The number of passes of an end mill job.
EndMillPasses(travel_height, cut_depth, pass_depth) ==
    IF pass_depth.some THEN AsUsize(travel_height - cut_depth, pass_depth.v) ELSE 1

\* The commands pushed before the passes, and the number of passes; an error
\* when the job and the selected tool do not match.
JobSetup(job, tool_config, jog_speed) ==
    IF job.kind = "Laser"
    THEN IF tool_config.kind = "Laser"
         THEN [result |-> "Ok", error |-> "",
               commands |-> <<CmdUnitMode("Metric"), CmdSetRapidTransverseSpeed(jog_speed),
                              CmdSetWorkSpeed(job.work_speed),
                              CmdEquipTool(ToolLaser(tool_config.max_power)),
                              CmdSetPower(job.laser_power)>>,
               passes |-> job.passes]
         ELSE [result |-> "Err",
               error |-> "Job was configured for a laser but selected tool is not a laser.",
               commands |-> <<>>, passes |-> 0]
    ELSE IF tool_config.kind = "Spindle"
         THEN [result |-> "Ok", error |-> "",
               commands |-> <<CmdUnitMode("Metric"), CmdSetRapidTransverseSpeed(jog_speed),
                              CmdSetWorkSpeed(job.work_speed),
                              CmdEquipTool(ToolSpindle(tool_config.max_speed,
                                                       job.plunge_speed, job.travel_height,
                                                       job.cut_depth, job.pass_depth)),
                              CmdSetSpindleSpeed(job.spindle_speed)>>,
               passes |-> EndMillPasses(job.travel_height, job.cut_depth, job.pass_depth)]
         ELSE [result |-> "Err",
               error |-> "Job was configured for a spindle but selected tool is not a spindle.",
               commands |-> <<>>, passes |-> 0]

\* An optional include file, as the command that splices it (or nothing).
IncludeOf(directory, file) ==
    IF file = <<>> THEN <<>> ELSE <<CmdIncludeFile(Join(directory, file[1]))>>

\* The body of the loop over the passes, for one pass.
OnePass(polygon, tool_config, generate_infill, invert, pass_index) ==
    LET bounds == BoundingRect(polygon)
        radius == tool_config.diameter \div 2
        min_x == bounds[1][1] + radius
        min_y == bounds[1][2] + radius
        max_x == bounds[2][1]
        max_y == bounds[2][2]
    IN  TraceOutlines(polygon, <<min_x, min_y>>, pass_index)
           \o (IF generate_infill
               THEN SortInfill(InfillLines(polygon, invert, pass_index,
                                           min_x, min_y, max_x, max_y, radius),
                               <<min_x, min_y>>, pass_index)
               ELSE <<>>)

\* Mutant of generate_gcode: the tool is taken off again after the setup.
generate_gcode_UnequipsAfterSetup(queue, polygon, job, tool_config, jog_speed, directory, generate_infill, invert) ==
    LET setup == JobSetup(job, tool_config, jog_speed)
    IN  IF setup.result = "Err"
        THEN [result |-> "Err", error |-> setup.error, commands |-> queue]
        ELSE LET before == queue \o setup.commands \o <<CmdEquipTool(ToolNone)>>
                              \o IncludeOf(directory, tool_config.init_gcode)
             IN  IF setup.passes > 0 /\ BoundingRect(polygon) = <<>>
                 THEN [result |-> "Err", error |-> "Could not compute bounds for PCB.",
                       commands |-> before]
                 ELSE [result |-> "Ok", error |-> "",
                       commands |->
                           before
                             \o Flatten([k \in 1..setup.passes |->
                                   OnePass(polygon, tool_config, generate_infill,
                                           invert, k - 1)])
                             \o IncludeOf(directory, tool_config.shutdown_gcode)
                             \o <<CmdEquipTool(ToolNone)>>]

\* GerberFile::generate_gcode on a polygon model: the queue with the commands
\* of the stage pushed, and the result.
generate_gcode(queue, polygon, job, tool_config, jog_speed, directory, generate_infill, invert) ==
    LET setup == JobSetup(job, tool_config, jog_speed)
    IN  IF setup.result = "Err"
        THEN [result |-> "Err", error |-> setup.error, commands |-> queue]
        ELSE LET before == queue \o setup.commands
                              \o IncludeOf(directory, tool_config.init_gcode)
             IN  IF setup.passes > 0 /\ BoundingRect(polygon) = <<>>
                 THEN [result |-> "Err", error |-> "Could not compute bounds for PCB.",
                       commands |-> before]
                 ELSE [result |-> "Ok", error |-> "",
                       commands |->
                           before
                             \o Flatten([k \in 1..setup.passes |->
                                   OnePass(polygon, tool_config, generate_infill,
                                           invert, k - 1)])
                             \o IncludeOf(directory, tool_config.shutdown_gcode)
                             \o <<CmdEquipTool(ToolNone)>>]

-----------------------------------------------------------------------------
(* Specification Spec: to_string run on an arbitrary queue. Each action is *)
(* one arm of the match, taken on a next command drawn from the inputs.    *)

MaxPower == 10

Laser == ToolLaser(MaxPower)

\* travel_height 1 mm, cut_depth -1 mm, pass_depth 0.5 mm
Spindle == ToolSpindle(10, 1, 2, -2, SomeDepth(1))

Tools == {ToolNone, Laser, Spindle}

Points == {<<0, 0>>, <<3, 1>>}

PassIndices == {0, 1}

\* Half of the maximum power of the laser, and more than the maximum.
Powers == {5, 15}

SpindleSpeeds == {-6, 6}

Speeds == {7}

IncludePaths == {<<"forge", "shutdown.gcode">>, <<"config", "shutdown.gcode">>}

Sides == {"Front", "Back"}

XOffsets == {0, 4}

\* The variables of the planner and of the orchestrator, where they are not used.
NoStage == [kind |-> "None"]

PlanIdle == stage = NoStage /\ gcode = <<>> /\ phase = "emit"

ProcessStart == [build |-> "Running", error |-> "", log |-> <<>>, exit_code |-> -1]

\* No function is being applied.
NoInput == [fn |-> "None"]

NoResult == [returned |-> FALSE]

FnIdle == input = NoInput /\ result = NoResult

BuildIdle ==
    /\ forge = [align_backside |-> FALSE, files |-> 0, gcode_files |-> <<>>]
    /\ cursor = 0
    /\ bounds_x = [min_x |-> 0, max_x |-> 0]
    /\ written = <<>>
    /\ process = ProcessStart

Init ==
    /\ commands = <<>>
    /\ em = EmitterInit
    /\ x_offset \in XOffsets
    /\ PlanIdle
    /\ BuildIdle
    /\ FnIdle

\* The loop has a next command.
HasNext == em.result = "Running" /\ Len(commands) < MaxQueue

DoEquipTool ==
    \E t \in Tools :
        /\ HasNext
        /\ commands' = Append(commands, CmdEquipTool(t))
        /\ em' = Step(em, CmdEquipTool(t), x_offset)
        /\ UNCHANGED <<x_offset, planVars, buildVars>>
    /\ UNCHANGED fnVars

DoSetRapidTransverseSpeed ==
    \E v \in Speeds :
        /\ HasNext
        /\ commands' = Append(commands, CmdSetRapidTransverseSpeed(v))
        /\ em' = Step(em, CmdSetRapidTransverseSpeed(v), x_offset)
        /\ UNCHANGED <<x_offset, planVars, buildVars>>
    /\ UNCHANGED fnVars

DoSetWorkSpeed ==
    \E v \in Speeds :
        /\ HasNext
        /\ commands' = Append(commands, CmdSetWorkSpeed(v))
        /\ em' = Step(em, CmdSetWorkSpeed(v), x_offset)
        /\ UNCHANGED <<x_offset, planVars, buildVars>>
    /\ UNCHANGED fnVars

DoSetPower ==
    \E p \in Powers :
        /\ HasNext
        /\ commands' = Append(commands, CmdSetPower(p))
        /\ em' = Step(em, CmdSetPower(p), x_offset)
        /\ UNCHANGED <<x_offset, planVars, buildVars>>
    /\ UNCHANGED fnVars

DoSetSpindleSpeed ==
    \E v \in SpindleSpeeds :
        /\ HasNext
        /\ commands' = Append(commands, CmdSetSpindleSpeed(v))
        /\ em' = Step(em, CmdSetSpindleSpeed(v), x_offset)
        /\ UNCHANGED <<x_offset, planVars, buildVars>>
    /\ UNCHANGED fnVars

DoCut ==
    \E k \in PassIndices, p \in Points :
        /\ HasNext
        /\ commands' = Append(commands, CmdCut(k, p))
        /\ em' = Step(em, CmdCut(k, p), x_offset)
        /\ UNCHANGED <<x_offset, planVars, buildVars>>
    /\ UNCHANGED fnVars

DoMoveTo ==
    \E p \in Points :
        /\ HasNext
        /\ commands' = Append(commands, CmdMoveTo(p))
        /\ em' = Step(em, CmdMoveTo(p), x_offset)
        /\ UNCHANGED <<x_offset, planVars, buildVars>>
    /\ UNCHANGED fnVars

DoUnitMode ==
    \E m \in {"Metric", "Imperial"} :
        /\ HasNext
        /\ commands' = Append(commands, CmdUnitMode(m))
        /\ em' = Step(em, CmdUnitMode(m), x_offset)
        /\ UNCHANGED <<x_offset, planVars, buildVars>>
    /\ UNCHANGED fnVars

DoIncludeFile ==
    \E f \in IncludePaths :
        /\ HasNext
        /\ commands' = Append(commands, CmdIncludeFile(f))
        /\ em' = Step(em, CmdIncludeFile(f), x_offset)
        /\ UNCHANGED <<x_offset, planVars, buildVars>>
    /\ UNCHANGED fnVars

DoSetSide ==
    \E side \in Sides :
        /\ HasNext
        /\ commands' = Append(commands, CmdSetSide(side))
        /\ em' = Step(em, CmdSetSide(side), x_offset)
        /\ UNCHANGED <<x_offset, planVars, buildVars>>
    /\ UNCHANGED fnVars

\* The queue is exhausted: Ok(output).
Return ==
    /\ em.result = "Running"
    /\ em' = [em EXCEPT !.result = "Ok"]
    /\ UNCHANGED <<commands, x_offset, planVars, buildVars>>
    /\ UNCHANGED fnVars

Next ==
    \/ DoEquipTool
    \/ DoSetRapidTransverseSpeed
    \/ DoSetWorkSpeed
    \/ DoSetPower
    \/ DoSetSpindleSpeed
    \/ DoCut
    \/ DoMoveTo
    \/ DoUnitMode
    \/ DoIncludeFile
    \/ DoSetSide
    \/ Return

Spec == Init /\ [][Next]_vars

-----------------------------------------------------------------------------
(* Reading the queue and the output.                                       *)

SetMax(S) == CHOOSE m \in S : \A k \in S : k <= m

\* The tool the queue has equipped when its i-th command is taken, read from
\* the queue alone: the tool of the last EquipTool before i, None without one.
EquippedAt(cmds, i) ==
    LET equips == {k \in 1..(i - 1) : cmds[k].type = "EquipTool"}
    IN  IF equips = {} THEN ToolNone ELSE cmds[SetMax(equips)].tool

\* The output lines (as indices) that the i-th command wrote with a given op.
LinesBy(out, i, op) == {n \in 1..Len(out) : out[n].by = i /\ out[n].op = op}

\* The i-th command is a Cut that wrote its G1 X.. Y.. line.
CutDone(i) ==
    /\ commands[i].type = "Cut"
    /\ LinesBy(em.output, i, "G1XY") # {}

G1Of(i) == SetMax(LinesBy(em.output, i, "G1XY"))

\* No command of one of the given types lies strictly between i and j.
NoneBetween(i, j, types) ==
    \A k \in (i + 1)..(j - 1) : commands[k].type \notin types

\* No M5 line lies between the G1 lines of the Cuts i and j.
NoM5Between(i, j) ==
    \A n \in (G1Of(i) + 1)..(G1Of(j) - 1) : em.output[n].op # "M5"

\* The last line before line n whose op is one of ops (0 when there is none).
LastBefore(out, n, ops) ==
    LET S == {m \in 1..(n - 1) : out[m].op \in ops}
    IN  IF S = {} THEN 0 ELSE SetMax(S)

-----------------------------------------------------------------------------
(* C1 as stated: for every queue, no M5 line appears in the output between *)
(* the G1 lines of two Cut commands that have no MoveTo between them,      *)
(* whatever other commands lie between them. The emitter violates it: a    *)
(* SetPower, an EquipTool or a spliced include file between the two Cuts   *)
(* writes M5.                                                              *)
C1_NoM5BetweenCutsWithoutMoveTo ==
    \A i, j \in 1..Len(commands) :
        (i < j /\ CutDone(i) /\ CutDone(j) /\ NoneBetween(i, j, {"MoveTo"}))
            => NoM5Between(i, j)

(* C1 amended: no M5 line appears between the G1 lines of two Cut commands *)
(* that have no MoveTo, SetPower, EquipTool or IncludeFile between them.   *)
C1_NoM5BetweenCuts ==
    \A i, j \in 1..Len(commands) :
        (i < j /\ CutDone(i) /\ CutDone(j)
           /\ NoneBetween(i, j, {"MoveTo", "SetPower", "EquipTool", "IncludeFile"}))
            => NoM5Between(i, j)

\* Two Cuts of a laser with another command (not one of the excluded ones)
\* between them have both been emitted.
C1_Witness ==
    \E i, j \in 1..Len(commands) :
        /\ i + 1 < j /\ CutDone(i) /\ CutDone(j)
        /\ EquippedAt(commands, i).kind = "Laser"
        /\ NoneBetween(i, j, {"MoveTo", "SetPower", "EquipTool", "IncludeFile"})

(* C2: whenever the tool equipped by the queue is None (no EquipTool yet,  *)
(* or the last EquipTool was of None), taking a Cut ends to_string with    *)
(* the error 'No tool is equipped.', the Cut is the last command taken and *)
(* it wrote no line at all (so no G1 X.. Y.. line).                        *)
C2_CutWithoutToolFails ==
    \A i \in 1..Len(commands) :
        (commands[i].type = "Cut" /\ EquippedAt(commands, i).kind = "None")
            => /\ em.result = "Err"
               /\ em.error = "No tool is equipped."
               /\ i = Len(commands)
               /\ \A n \in 1..Len(em.output) : em.output[n].by # i

\* A Cut was taken after a laser was equipped and then un-equipped.
C2_Witness ==
    \E h, i, j \in 1..Len(commands) :
        /\ h < i /\ i < j
        /\ commands[h].type = "EquipTool" /\ commands[h].tool.kind = "Laser"
        /\ commands[i].type = "EquipTool" /\ commands[i].tool.kind = "None"
        /\ commands[j].type = "Cut" /\ EquippedAt(commands, j).kind = "None"
        /\ em.result = "Err"

(* C3: every G0 X.. Y.. line written by a MoveTo is written while the      *)
(* equipped tool is disengaged: for a laser the last M3/M5 line before it  *)
(* is M5, for a spindle the last Z line before it is G0 Z<travel_height>.  *)
C3_RapidOnlyWhileDisengaged ==
    \A n \in 1..Len(em.output) :
        (em.output[n].op = "G0XY" /\ em.output[n].by > 0)
            => LET t == EquippedAt(commands, em.output[n].by)
                   onoff == LastBefore(em.output, n, {"M3", "M5"})
                   z == LastBefore(em.output, n, {"G0Z", "G1ZF"})
               IN  /\ t.kind = "Laser" => (onoff > 0 /\ em.output[onoff].op = "M5")
                   /\ t.kind = "Spindle" =>
                        (z > 0 /\ em.output[z].op = "G0Z"
                           /\ em.output[z].a \in {<<t.travel_height, 0>>,
                                                  <<0, t.travel_height>>})

-----------------------------------------------------------------------------
(* Back-side mirroring: the queue with SetSide(Front) and SetSide(Back)    *)
(* swapped, and the two outputs side by side.                              *)

SwapSide(c) ==
    IF c.type = "SetSide"
    THEN CmdSetSide(IF c.side = "Front" THEN "Back" ELSE "Front")
    ELSE c

SwapSides(cmds) == [i \in 1..Len(cmds) |-> SwapSide(cmds[i])]

\* The output of the run on the swapped queue, as far as the queue has been taken.
SwappedOutput == Fold(EmitterInit, SwapSides(commands), x_offset).output

\* Line n of both outputs is the same kind of X/Y line: the X's add up to
\* x_offset and the Y's are equal.
Mirrored(n) ==
    /\ SwappedOutput[n].op = em.output[n].op
    /\ NumAdd(em.output[n].a, SwappedOutput[n].a) = ResolveXOffset(x_offset)
    /\ SwappedOutput[n].b = em.output[n].b

\* The i-th command of the queue comes after a SetSide.
AfterSetSide(i) == \E k \in 1..(i - 1) : commands[k].type = "SetSide"

(* C4 as stated: in the outputs of any queue and of the swapped queue,     *)
(* every X/Y line of a MoveTo or Cut has X's that add up to x_offset and   *)
(* equal Y's. The emitter violates it for a MoveTo or Cut that no SetSide  *)
(* precedes: both runs emit it on the default side, Front.                 *)
C4_EveryXIsMirrored ==
    /\ Len(SwappedOutput) = Len(em.output)
    /\ \A n \in 1..Len(em.output) :
        (em.output[n].op \in {"G0XY", "G1XY"} /\ em.output[n].by > 0) => Mirrored(n)

(* C4 amended: in the outputs of any queue and of the swapped queue, every *)
(* X/Y line of a MoveTo or Cut that comes after a SetSide in the queue has *)
(* X's that add up to x_offset and equal Y's.                              *)
C4_XAfterSetSideIsMirrored ==
    /\ Len(SwappedOutput) = Len(em.output)
    /\ \A n \in 1..Len(em.output) :
        (em.output[n].op \in {"G0XY", "G1XY"} /\ em.output[n].by > 0
            /\ AfterSetSide(em.output[n].by)) => Mirrored(n)

\* A Cut away from X = 0 was emitted on the back side with a non-zero offset.
C4_Witness ==
    /\ x_offset # 0
    /\ \E n \in 1..Len(em.output) :
        /\ em.output[n].op = "G1XY" /\ em.output[n].by > 0
        /\ AfterSetSide(em.output[n].by)
        /\ commands[em.output[n].by].target[1] # 0
        /\ em.board_side = "Back"

-----------------------------------------------------------------------------
(* Specification SpecPlan: one Gerber stage is planned by generate_gcode   *)
(* and its queue is emitted by to_string, one command per step.            *)

MaxPasses == 2

MaxPassDepth == 5

\* The closed ring around the square from (a, a) to (b, b).
Square(a, b) == <<<<a, a>>, <<b, a>>, <<b, b>>, <<a, b>>, <<a, a>>>>

PolygonModels ==
    { <<>>,
      <<[exterior |-> Square(0, 4), interiors |-> <<>>]>>,
      <<[exterior |-> Square(0, 6), interiors |-> <<Square(2, 4)>>]>>,
      <<[exterior |-> Square(4, 6), interiors |-> <<>>],
        [exterior |-> Square(0, 2), interiors |-> <<>>]>> }

LaserJob(passes) ==
    [kind |-> "Laser", laser_power |-> 5, work_speed |-> 7, passes |-> passes,
     spindle_speed |-> 0, travel_height |-> 0, cut_depth |-> 0, pass_depth |-> NoDepth,
     plunge_speed |-> 0]

EndMillJob(travel_height, cut_depth, pass_depth) ==
    [kind |-> "EndMill", laser_power |-> 0, work_speed |-> 7, passes |-> 0,
     spindle_speed |-> 6, travel_height |-> travel_height, cut_depth |-> cut_depth,
     pass_depth |-> pass_depth, plunge_speed |-> 1]

\* travel_height is 1 mm; cut_depth is -1 mm or (above the travel height) 1.5 mm.
Jobs ==
    {LaserJob(n) : n \in 0..MaxPasses}
      \cup {EndMillJob(2, c, d) :
              c \in {-2, 3}, d \in {NoDepth} \cup {SomeDepth(v) : v \in 1..MaxPassDepth}}

\* Tool diameters are even, so that diameter / 2 is a whole number of half millimetres.
LaserSelection ==
    [kind |-> "Laser", max_power |-> MaxPower, max_speed |-> 0, diameter |-> 2,
     init_gcode |-> <<"init.gcode">>, shutdown_gcode |-> <<>>]

SpindleSelection ==
    [kind |-> "Spindle", max_power |-> 0, max_speed |-> 10, diameter |-> 2,
     init_gcode |-> <<>>, shutdown_gcode |-> <<"shutdown.gcode">>]

ToolSelections == {LaserSelection, SpindleSelection}

JogSpeed == 9

\* build's call of generate_gcode: an EngraveMask stage generates infill, a
\* CutBoard stage does not (and is never inverted).
StageKinds ==
    { [kind |-> "EngraveMask", generate_infill |-> TRUE, invert |-> FALSE],
      [kind |-> "EngraveMask", generate_infill |-> TRUE, invert |-> TRUE],
      [kind |-> "CutBoard", generate_infill |-> FALSE, invert |-> FALSE] }

Stages ==
    { [kind |-> k.kind, generate_infill |-> k.generate_infill, invert |-> k.invert,
       polygon |-> m, job |-> j, tool_config |-> s] :
        k \in StageKinds, m \in PolygonModels, j \in Jobs, s \in ToolSelections }

InitPlan ==
    /\ commands = <<>>
    /\ em = EmitterInit
    /\ x_offset = 0
    /\ stage \in Stages
    /\ gcode = <<>>
    /\ phase = "plan"
    /\ BuildIdle
    /\ FnIdle

\* GerberFile::generate_gcode
PlanStage ==
    /\ phase = "plan"
    /\ LET r == generate_gcode(gcode, stage.polygon, stage.job, stage.tool_config,
                               JogSpeed, "forge", stage.generate_infill, stage.invert)
       IN  /\ gcode' = r.commands
           /\ phase' = IF r.result = "Ok" THEN "emit" ELSE "failed"
    /\ UNCHANGED <<emitVars, stage, buildVars>>
    /\ UNCHANGED fnVars

\* One iteration of the loop of to_string over the planned queue.
EmitNext ==
    /\ phase = "emit"
    /\ em.result = "Running"
    /\ Len(commands) < Len(gcode)
    /\ commands' = Append(commands, gcode[Len(commands) + 1])
    /\ em' = Step(em, gcode[Len(commands) + 1], x_offset)
    /\ UNCHANGED <<x_offset, planVars, buildVars>>
    /\ UNCHANGED fnVars

\* The loop is over: Ok(output).
EmitReturn ==
    /\ phase = "emit"
    /\ em.result = "Running"
    /\ Len(commands) = Len(gcode)
    /\ em' = [em EXCEPT !.result = "Ok"]
    /\ phase' = "done"
    /\ UNCHANGED <<commands, x_offset, stage, gcode, buildVars>>
    /\ UNCHANGED fnVars

NextPlan ==
    \/ PlanStage
    \/ EmitNext
    \/ EmitReturn

SpecPlan == InitPlan /\ [][NextPlan]_vars

-----------------------------------------------------------------------------
(* Reading a planned queue.                                                *)

\* Every ring of the polygon model: per polygon the exterior, then the interiors.
RingList(polygon) ==
    Flatten([i \in 1..Len(polygon) |-> <<polygon[i].exterior>> \o polygon[i].interiors])

\* At position pos the queue holds a traversal of the ring in pass k: a MoveTo
\* to its first point followed by a Cut, tagged k, to each further point.
RingTraversalAt(queue, pos, ring, k) ==
    /\ pos >= 1 /\ pos + Len(ring) - 1 <= Len(queue)
    /\ queue[pos] = CmdMoveTo(ring[1])
    /\ \A i \in 2..Len(ring) : queue[pos + i - 1] = CmdCut(k, ring[i])

\* The positions of the traversals of a ring in the queue, in any pass.
TraversalsOf(queue, ring) ==
    {pos \in 1..Len(queue) : \E k \in 0..Len(queue) : RingTraversalAt(queue, pos, ring, k)}

CutsOfPass(queue, k) ==
    {i \in 1..Len(queue) : queue[i].type = "Cut" /\ queue[i].pass_index = k}

MoveTos(queue) == {i \in 1..Len(queue) : queue[i].type = "MoveTo"}

RECURSIVE SumOfLengths(_)
SumOfLengths(rings) ==
    IF rings = <<>> THEN 0 ELSE Len(Head(rings)) + SumOfLengths(Tail(rings))

\* The number of passes as the specification gives it: a laser takes it from
\* the job; an end mill takes floor((travel_height - cut_depth) / pass_depth)
\* when pass_depth is set (\div is the floor for a positive divisor), else 1.
PassesOf(job) ==
    IF job.kind = "Laser" THEN job.passes
    ELSE IF job.pass_depth.some
         THEN (job.travel_height - job.cut_depth) \div job.pass_depth.v
         ELSE 1

Planned == phase \in {"emit", "done"}

(* C8: the queue of a planned Gerber stage holds, for k = 0 .. passes-1 in *)
(* increasing order, a MoveTo-plus-Cuts traversal of every exterior and    *)
(* interior ring, every Cut of pass k tagged pass_index = k, where passes  *)
(* is the job's `passes` for a laser and, for an end mill,                 *)
(* floor((travel_height - cut_depth) / pass_depth) when pass_depth is set  *)
(* and 1 otherwise; without infill the queue holds no other MoveTo or Cut. *)
C8_PassesAndTraversals ==
    Planned =>
        LET passes == PassesOf(stage.job)
            rings == RingList(stage.polygon)
        IN  /\ \A k \in 0..(passes - 1) : \A r \in 1..Len(rings) :
                  \E pos \in 1..Len(gcode) : RingTraversalAt(gcode, pos, rings[r], k)
            /\ \A i \in 1..Len(gcode) :
                  gcode[i].type = "Cut" => gcode[i].pass_index \in 0..(passes - 1)
            /\ \A i, j \in 1..Len(gcode) :
                  (i < j /\ gcode[i].type = "Cut" /\ gcode[j].type = "Cut")
                      => gcode[i].pass_index <= gcode[j].pass_index
            /\ \A r \in 1..Len(rings) :
                  Cardinality(TraversalsOf(gcode, rings[r])) >= Max(passes, 0)
            /\ ~stage.generate_infill =>
                  /\ Cardinality(MoveTos(gcode)) = Max(passes, 0) * Len(rings)
                  /\ \A k \in 0..(passes - 1) :
                        Cardinality(CutsOfPass(gcode, k))
                            = SumOfLengths(rings) - Len(rings)

\* An end mill stage whose depth is not a multiple of the pass depth has been
\* planned on a polygon model with more than one ring.
C8_Witness ==
    /\ phase = "done"
    /\ stage.job.kind = "EndMill" /\ stage.job.pass_depth = SomeDepth(3)
    /\ stage.job.cut_depth = -2
    /\ Len(RingList(stage.polygon)) = 2
    /\ CutsOfPass(gcode, 0) # {}

\* The stage of the scenario: an end mill CutBoard stage with travel_height
\* 1 mm, cut_depth -1 mm and pass_depth 0.5 mm.
MultiPassScenario ==
    /\ stage.kind = "CutBoard"
    /\ stage.job = EndMillJob(2, -2, SomeDepth(1))
    /\ phase = "done"

\* The plunge lines (G1 Z.. F..) written by the Cuts of pass k.
PlungesOfPass(k) ==
    {n \in 1..Len(em.output) :
        /\ em.output[n].op = "G1ZF"
        /\ commands[em.output[n].by].pass_index = k}

\* Every plunge of pass k goes to Z = z (half millimetres), and there is one.
PlungeOfPassIs(k, z) ==
    /\ PlungesOfPass(k) # {}
    /\ \A n \in PlungesOfPass(k) : em.output[n].a = <<z, 0>>

\* Every ring is traversed exactly `count` times, in the passes 0 .. count-1.
OutlineEmitted(count) ==
    LET rings == RingList(stage.polygon)
    IN  /\ \A r \in 1..Len(rings) : Cardinality(TraversalsOf(gcode, rings[r])) = count
        /\ \A k \in 0..(count - 1) : CutsOfPass(gcode, k) # {}
        /\ \A i \in 1..Len(gcode) :
              gcode[i].type = "Cut" => gcode[i].pass_index \in 0..(count - 1)

(* C9 as stated: in the scenario the planner emits the outline exactly     *)
(* twice, with pass_index 0 and 1, and the plunge of the first pass is to  *)
(* Z = 0.5 mm and of the second pass to Z = 0. The code plans              *)
(* floor((1 - -1) / 0.5) = 4 passes and plunges pass k to 1 - 0.5 k.       *)
C9_TwoPassesHalfThenZero ==
    MultiPassScenario =>
        /\ OutlineEmitted(2)
        /\ PlungeOfPassIs(0, 1)
        /\ PlungeOfPassIs(1, 0)

(* C9 amended: in the scenario the planner emits the outline exactly four  *)
(* times, with pass_index 0, 1, 2 and 3, and the plunge of the first pass  *)
(* is to Z = 1 mm (the travel height), of the second pass to Z = 0.5 mm,   *)
(* of the third to Z = 0 and of the fourth to Z = -0.5 mm.                 *)
C9_FourPassesFromTravelHeight ==
    MultiPassScenario =>
        /\ OutlineEmitted(4)
        /\ PlungeOfPassIs(0, 2)
        /\ PlungeOfPassIs(1, 1)
        /\ PlungeOfPassIs(2, 0)
        /\ PlungeOfPassIs(3, -1)

\* The scenario has been planned and emitted.
C9_Witness ==
    /\ MultiPassScenario
    /\ em.result = "Ok"
    /\ Len(RingList(stage.polygon)) = 2

\* The lines of the output written by the j-th command.
LinesOf(j) == {n \in 1..Len(em.output) : em.output[n].by = j}

(* C10: in the output of a multi-pass end mill stage, between the last Cut *)
(* of pass k and the first Cut of pass k+1 a G0 Z<travel_height> line is   *)
(* written, before any G0 X.. Y.. line of the MoveTo that starts pass k+1. *)
C10_RetractBetweenPasses ==
    (Planned /\ stage.job.kind = "EndMill") =>
        \A i, j \in 1..Len(commands) :
            ( /\ i < j /\ CutDone(i) /\ CutDone(j)
              /\ commands[j].pass_index = commands[i].pass_index + 1
              /\ \A c \in (i + 1)..(j - 1) : commands[c].type # "Cut" )
            => \E n \in (G1Of(i) + 1)..(G1Of(j) - 1) :
                  /\ em.output[n].op = "G0Z"
                  /\ em.output[n].a = <<stage.job.travel_height, 0>>
                  /\ n \notin LinesOf(j)
                  /\ \A m \in (G1Of(i) + 1)..(n - 1) : em.output[m].op # "G0XY"

-----------------------------------------------------------------------------
(* The drill planner and the orchestrator (build).                         *)

\* DrillHole::generate_gcode for a hole whose circle is sampled in four steps
\* (distance_per_step is a quarter of the circumference): the sample of step 0
\* is the starting point itself.
hole_generate_gcode(hole, tool_diameter) ==
    LET tool_radius == tool_diameter \div 2
        inner_radius == (hole.diameter - tool_radius) \div 2
        at(dx, dy) == <<hole.position[1] + dx, hole.position[2] + dy>>
        starting_point == at(inner_radius, 0)
    IN  <<CmdMoveTo(starting_point),
          CmdCut(0, at(inner_radius, 0)), CmdCut(0, at(0, inner_radius)),
          CmdCut(0, at(-inner_radius, 0)), CmdCut(0, at(0, -inner_radius)),
          CmdCut(0, starting_point)>>

\* The loop over the holes: the nearest remaining hole is drilled next.
RECURSIVE DrillHoles(_, _, _, _)
DrillHoles(holes, last_position, passes, tool_diameter) ==
    IF holes = <<>> THEN <<>>
    ELSE LET hole_selection ==
                 NearestStart([i \in 1..Len(holes) |-> holes[i].position], last_position)
             hole == holes[hole_selection]
         IN  Flatten([k \in 1..passes |-> hole_generate_gcode(hole, tool_diameter)])
                \o DrillHoles(Remove(holes, hole_selection), hole.position, passes,
                              tool_diameter)

\* The commands DrillFile::generate_gcode pushes first, and the number of
\* passes. The spindle has no pass depth: it plunges to the job's cut depth.
DrillJobSetup(job, tool_config, jog_speed) ==
    IF job.kind = "Laser"
    THEN IF tool_config.kind = "Laser"
         THEN [result |-> "Ok", error |-> "",
               commands |-> <<CmdEquipTool(ToolLaser(tool_config.max_power)),
                              CmdUnitMode("Metric"), CmdSetRapidTransverseSpeed(jog_speed),
                              CmdSetWorkSpeed(job.work_speed), CmdSetPower(job.laser_power)>>,
               passes |-> job.passes]
         ELSE [result |-> "Err",
               error |-> "Job was configured for a laser but selected tool is not a laser.",
               commands |-> <<>>, passes |-> 0]
    ELSE IF tool_config.kind = "Spindle"
         THEN [result |-> "Ok", error |-> "",
               commands |-> <<CmdEquipTool(ToolSpindle(tool_config.max_speed,
                                                       job.plunge_speed, job.travel_height,
                                                       job.cut_depth, NoDepth)),
                              CmdUnitMode("Metric"), CmdSetRapidTransverseSpeed(jog_speed),
                              CmdSetWorkSpeed(job.work_speed),
                              CmdSetSpindleSpeed(job.spindle_speed)>>,
               passes |-> 1]
         ELSE [result |-> "Err",
               error |-> "Job was configured for a laser but selected tool is not a laser.",
               commands |-> <<>>, passes |-> 0]

\* DrillFile::generate_gcode: holes, then the routed paths (polygon models).
drill_generate_gcode(queue, drill, job, tool_config, jog_speed, directory) ==
    LET setup == DrillJobSetup(job, tool_config, jog_speed)
    IN  IF setup.result = "Err"
        THEN [result |-> "Err", error |-> setup.error, commands |-> queue]
        ELSE [result |-> "Ok", error |-> "",
              commands |->
                  queue \o setup.commands
                    \o IncludeOf(directory, tool_config.init_gcode)
                    \o DrillHoles(drill.holes, <<0, 0>>, setup.passes, tool_config.diameter)
                    \o Flatten([i \in 1..Len(drill.paths) |->
                          Flatten([k \in 1..Len(RingList(drill.paths[i])) |->
                              add_point_string_to_gcode_vector(
                                  RingList(drill.paths[i])[k], 0)])])
                    \o IncludeOf(directory, tool_config.shutdown_gcode)
                    \o <<CmdEquipTool(ToolNone)>>]

-----------------------------------------------------------------------------
(* Specification SpecBuild: main runs build on a forge file. The stages of *)
(* the forge file are drawn as the loops reach them; forge.gcode_files     *)
(* holds the stages iterated so far, per output file in sorted path order. *)

MaxFiles == 2

\* The number of stages of the whole forge file, over all output files.
MaxStages == 2

\* The Gerber files next to the forge file: whether gerber_file::load
\* succeeds, the X bounds of the shapes and the polygon model of the image.
GerberFiles ==
    [name \in {"top.gbr", "bottom.gbr", "bad.gbr"} |->
        CASE name = "top.gbr" ->
               [loads |-> TRUE, min_x |-> 1, max_x |-> 3,
                polygon |-> <<[exterior |-> Square(0, 4), interiors |-> <<>>]>>]
          [] name = "bottom.gbr" ->
               [loads |-> TRUE, min_x |-> 3, max_x |-> 5,
                polygon |-> <<[exterior |-> Square(2, 6), interiors |-> <<>>]>>]
          [] OTHER ->
               [loads |-> FALSE, min_x |-> 0, max_x |-> 0, polygon |-> <<>>]]

\* The drill file next to the forge file.
DrillFiles ==
    [name \in {"holes.drl"} |->
        [loads |-> TRUE,
         holes |-> <<[position |-> <<5, 5>>, diameter |-> 5],
                     [position |-> <<2, 2>>, diameter |-> 3]>>,
         paths |-> <<>>]]

\* The machines: "forge" is defined in the forge file, "config" only in the
\* global configuration (its include files do not exist), "missing" nowhere.
Machines == {"forge", "config", "missing"}

\* The job and the tool of the machine's engraving and cutting profiles.
EngravingConfig == [job |-> LaserJob(1), tool |-> LaserSelection]

CuttingConfig == [job |-> EndMillJob(2, -2, SomeDepth(1)), tool |-> SpindleSelection]

EngraveMaskStages ==
    { [kind |-> "EngraveMask", file |-> "Gerber", name |-> "top.gbr",
       backside |-> FALSE, invert |-> FALSE, machine |-> "forge"],
      [kind |-> "EngraveMask", file |-> "Gerber", name |-> "bottom.gbr",
       backside |-> TRUE, invert |-> FALSE, machine |-> "forge"],
      [kind |-> "EngraveMask", file |-> "Gerber", name |-> "bad.gbr",
       backside |-> FALSE, invert |-> FALSE, machine |-> "forge"],
      [kind |-> "EngraveMask", file |-> "Gerber", name |-> "top.gbr",
       backside |-> TRUE, invert |-> TRUE, machine |-> "config"] }

CutBoardGerberStages ==
    { [kind |-> "CutBoard", file |-> "Gerber", name |-> "top.gbr",
       backside |-> FALSE, invert |-> FALSE, machine |-> "forge"],
      [kind |-> "CutBoard", file |-> "Gerber", name |-> "top.gbr",
       backside |-> FALSE, invert |-> FALSE, machine |-> "missing"] }

CutBoardDrillStages ==
    { [kind |-> "CutBoard", file |-> "Drill", name |-> "holes.drl",
       backside |-> TRUE, invert |-> FALSE, machine |-> "forge"] }

ForgeFiles ==
    { [readable |-> r, align_backside |-> a, files |-> n,
       gcode_files |-> [i \in 1..n |-> <<>>]] :
        r \in BOOLEAN, a \in BOOLEAN, n \in 0..MaxFiles }

InitBuild ==
    /\ commands = <<>>
    /\ em = EmitterInit
    /\ x_offset = 0
    /\ stage = NoStage
    /\ gcode = <<>>
    /\ phase = "load"
    /\ forge \in ForgeFiles
    /\ cursor = 1
    /\ bounds_x = [min_x |-> Infinity, max_x |-> -Infinity]
    /\ written = <<>>
    /\ process = ProcessStart
    /\ FnIdle

\* `?` on an error: build returns it.
Fail(error) == [process EXCEPT !.build = "Err", !.error = error]

\* The machine of a stage: the include file search directory, or an error.
ResolveMachine(machine) ==
    IF machine = "missing"
    THEN [result |-> "Err", error |-> "Failed to find machine configuration.",
          directory |-> ""]
    ELSE [result |-> "Ok", error |-> "", directory |-> machine]

\* process_gerber_file: [result, error, commands, bounds_x].
process_gerber_file(queue, bounds, name, job_config, directory, generate_infill, invert) ==
    LET gerber == GerberFiles[name]
    IN  IF ~gerber.loads
        THEN [result |-> "Err", error |-> "Failed to load gerber file.",
              commands |-> queue, bounds_x |-> bounds]
        ELSE LET r == generate_gcode(queue, gerber.polygon, job_config.job,
                                     job_config.tool, JogSpeed, directory,
                                     generate_infill, invert)
             IN  [result |-> r.result,
                  error |-> IF r.result = "Ok" THEN "" ELSE "Failed to generate GCode file.",
                  commands |-> r.commands,
                  bounds_x |-> [min_x |-> Min(bounds.min_x, gerber.min_x),
                                max_x |-> Max(bounds.max_x, gerber.max_x)]]

\* One iteration of the loop over the stages of an output file: SetSide is
\* pushed, the machine is resolved, the file is processed.
ProcessStage(queue, bounds, d) ==
    LET pushed == Append(queue, CmdSetSide(IF d.backside THEN "Back" ELSE "Front"))
        machine == ResolveMachine(d.machine)
    IN  IF machine.result = "Err"
        THEN [result |-> "Err", error |-> machine.error, commands |-> pushed,
              bounds_x |-> bounds]
        ELSE IF d.kind = "EngraveMask"
        THEN process_gerber_file(pushed, bounds, d.name, EngravingConfig,
                                 machine.directory, TRUE, d.invert)
        ELSE IF d.file = "Gerber"
        THEN process_gerber_file(pushed, bounds, d.name, CuttingConfig,
                                 machine.directory, FALSE, FALSE)
        ELSE IF ~DrillFiles[d.name].loads
        THEN [result |-> "Err", error |-> "Failed to load drill file.",
              commands |-> pushed, bounds_x |-> bounds]
        ELSE LET r == drill_generate_gcode(pushed, DrillFiles[d.name], CuttingConfig.job,
                                           CuttingConfig.tool, JogSpeed, machine.directory)
             IN  [result |-> r.result,
                  error |-> IF r.result = "Ok" THEN "" ELSE "Failed to generate gcode file.",
                  commands |-> r.commands, bounds_x |-> bounds]

\* The stages iterated so far, over all output files.
StagesRead(f) == SumOfLengths(f.gcode_files)

InStages == phase = "stages" /\ cursor <= forge.files

MoreStages == InStages /\ StagesRead(forge) < MaxStages

\* build, up to the loop over the output files: the forge file is loaded.
LoadForgeFile ==
    /\ phase = "load"
    /\ IF forge.readable
       THEN phase' = "stages" /\ process' = process
       ELSE phase' = "returned" /\ process' = Fail("Failed to load forge file.")
    /\ UNCHANGED <<emitVars, stage, gcode, forge, cursor, bounds_x, written>>
    /\ UNCHANGED fnVars

\* The stage arm Stage::EngraveMask.
EngraveMask ==
    /\ MoreStages
    /\ \E d \in EngraveMaskStages :
          LET r == ProcessStage(gcode, bounds_x, d)
          IN  /\ forge' = [forge EXCEPT !.gcode_files[cursor] = Append(@, d)]
              /\ gcode' = r.commands
              /\ bounds_x' = r.bounds_x
              /\ IF r.result = "Ok"
                 THEN phase' = phase /\ process' = process
                 ELSE phase' = "returned" /\ process' = Fail(r.error)
    /\ UNCHANGED <<emitVars, stage, cursor, written>>
    /\ UNCHANGED fnVars

\* The stage arm Stage::CutBoard with CutBoardFile::Gerber.
CutBoardGerber ==
    /\ MoreStages
    /\ \E d \in CutBoardGerberStages :
          LET r == ProcessStage(gcode, bounds_x, d)
          IN  /\ forge' = [forge EXCEPT !.gcode_files[cursor] = Append(@, d)]
              /\ gcode' = r.commands
              /\ bounds_x' = r.bounds_x
              /\ IF r.result = "Ok"
                 THEN phase' = phase /\ process' = process
                 ELSE phase' = "returned" /\ process' = Fail(r.error)
    /\ UNCHANGED <<emitVars, stage, cursor, written>>
    /\ UNCHANGED fnVars

\* The stage arm Stage::CutBoard with CutBoardFile::Drill.
CutBoardDrill ==
    /\ MoreStages
    /\ \E d \in CutBoardDrillStages :
          LET r == ProcessStage(gcode, bounds_x, d)
          IN  /\ forge' = [forge EXCEPT !.gcode_files[cursor] = Append(@, d)]
              /\ gcode' = r.commands
              /\ bounds_x' = r.bounds_x
              /\ IF r.result = "Ok"
                 THEN phase' = phase /\ process' = process
                 ELSE phase' = "returned" /\ process' = Fail(r.error)
    /\ UNCHANGED <<emitVars, stage, cursor, written>>
    /\ UNCHANGED fnVars

\* The offset build hands to to_string for an output file.
BacksideOffset(align_backside, bounds) ==
    IF align_backside THEN FloatSub(bounds.max_x, bounds.min_x) ELSE 0

\* Mutant of WriteOutput: the text produced up to an error is written too.
WriteOutput_EvenOnError(files, path, r, offset) ==
    Append(files, [path |-> path, x_offset |-> offset, output |-> r.output])

\* The output files after to_string and fs::write for one more of them.
WriteOutput(files, path, r, offset) ==
    IF r.result = "Ok"
    THEN Append(files, [path |-> path, x_offset |-> offset, output |-> r.output])
    ELSE files

\* The stages of the output file are over: the queue is emitted and written.
EmitAndWrite ==
    /\ InStages
    /\ LET backside_offset == BacksideOffset(forge.align_backside, bounds_x)
           r == to_string(gcode, backside_offset)
       IN  /\ commands' = gcode
           /\ em' = r
           /\ x_offset' = backside_offset
           /\ written' = WriteOutput(written, cursor, r, backside_offset)
           /\ IF r.result = "Ok"
              THEN /\ cursor' = cursor + 1
                   /\ gcode' = <<>>
                   /\ phase' = phase
                   /\ process' = process
              ELSE /\ cursor' = cursor
                   /\ gcode' = gcode
                   /\ phase' = "returned"
                   /\ process' = Fail("Failed to produce GCode for file")
    /\ UNCHANGED <<stage, forge, bounds_x>>
    /\ UNCHANGED fnVars

\* The loop over the output files is over: Ok(()).
BuildReturn ==
    /\ phase = "stages"
    /\ cursor > forge.files
    /\ phase' = "returned"
    /\ process' = [process EXCEPT !.build = "Ok"]
    /\ UNCHANGED <<emitVars, stage, gcode, forge, cursor, bounds_x, written>>
    /\ UNCHANGED fnVars

\* main: an error is logged; main returns, and the process ends with the
\* exit code of a main that returned.
Main ==
    /\ phase = "returned"
    /\ phase' = "exited"
    /\ process' = [process EXCEPT
                      !.log = IF process.build = "Err" THEN Append(@, "Fatal error")
                              ELSE @,
                      !.exit_code = 0]
    /\ UNCHANGED <<emitVars, stage, gcode, forge, cursor, bounds_x, written>>
    /\ UNCHANGED fnVars

NextBuild ==
    \/ LoadForgeFile
    \/ EngraveMask
    \/ CutBoardGerber
    \/ CutBoardDrill
    \/ EmitAndWrite
    \/ BuildReturn
    \/ Main

SpecBuild == InitBuild /\ [][NextBuild]_vars

-----------------------------------------------------------------------------
(* Reading a run of build.                                                 *)

\* The names of the Gerber files of all stages iterated, over all output files.
GerbersImaged ==
    UNION {{forge.gcode_files[i][k].name : k \in 1..Len(forge.gcode_files[i])} :
              i \in 1..Len(forge.gcode_files)}
      \cap {name \in DOMAIN GerberFiles : GerberFiles[name].loads}

ProjectMinX == -SetMax({-GerberFiles[name].min_x : name \in GerbersImaged})

ProjectMaxX == SetMax({GerberFiles[name].max_x : name \in GerbersImaged})

\* The queue of a list of stages, each processed in turn, up to the first error.
RECURSIVE StagesQueue(_, _)
StagesQueue(stages, r) ==
    IF stages = <<>> \/ r.result = "Err" THEN r
    ELSE StagesQueue(Tail(stages), ProcessStage(r.commands, r.bounds_x, Head(stages)))

QueueOfFile(i) ==
    StagesQueue(forge.gcode_files[i],
                [result |-> "Ok", error |-> "", commands |-> <<>>, bounds_x |-> bounds_x])

\* Every stage of output file i succeeds and its queue is emitted without error.
FileSucceeds(i, offset) ==
    /\ QueueOfFile(i).result = "Ok"
    /\ to_string(QueueOfFile(i).commands, offset).result = "Ok"

\* C5: with align_backside, the x_offset handed to the emitter for every output
\* file of a build is max_x - min_x over the Gerber files of all stages of
\* all output files, wherever the output file is in the processing order.
C5_OffsetIsProjectWide ==
    (process.build = "Ok" /\ forge.align_backside /\ GerbersImaged # {})
        => \A i \in 1..Len(written) : written[i].x_offset = ProjectMaxX - ProjectMinX

\* C6: an output file is written only when all its stages succeeded and its
\* whole queue was emitted without error, and it then holds that emission; the
\* outputs written are exactly those before the output file the run is at, so
\* that after a failure the failing output and the later ones are not written
\* and the earlier ones remain; a build that succeeds has written every output.
C6_WrittenOnlyWhenComplete ==
    /\ Len(written) = cursor - 1
    /\ \A i \in 1..Len(written) :
          /\ written[i].path = i
          /\ FileSucceeds(i, written[i].x_offset)
          /\ written[i].output =
                 to_string(QueueOfFile(i).commands, written[i].x_offset).output
    /\ process.build = "Ok" => Len(written) = forge.files
    /\ (process.build = "Err" /\ forge.readable)
          => /\ cursor <= forge.files
             /\ ~FileSucceeds(cursor, 0)

\* A run that wrote an output and then failed: in a stage, or in the emission.
C6_Witness ==
    /\ phase = "exited"
    /\ process.build = "Err"
    /\ Len(written) = 1
    /\ cursor = 2
    /\ QueueOfFile(2).result = "Ok"
    /\ em.result = "Err"

\* C7: the process ends with exit code 0 when build succeeds, and with another
\* exit code, after a 'Fatal error' line in the log, when build fails.
C7_ExitCodeReportsFailure ==
    phase = "exited"
        => /\ process.build = "Ok" => process.exit_code = 0
           /\ process.build = "Err"
                 => /\ process.exit_code # 0
                    /\ \E n \in 1..Len(process.log) : process.log[n] = "Fatal error"

-----------------------------------------------------------------------------
(* C21: with a laser of maximum power m equipped, SetPower(p) writes the   *)
(* line M3 P<floor(100 p / m)> S<floor(255 p / m)> and right after it the  *)
(* line M5, the S value lies in 0..255 for every requested p, and the tool *)
(* is not ready to cut afterwards: a Cut that follows writes M3 first. The *)
(* code violates the range: the ratio is not limited, so a power above the *)
(* maximum gives an S value above 255.                                     *)
C21_SetPowerLine ==
    \A i \in 1..Len(commands) :
        (commands[i].type = "SetPower" /\ EquippedAt(commands, i).kind = "Laser")
            => LET m == EquippedAt(commands, i).max_power
                   power == commands[i].v
                   lines == {n \in 1..Len(em.output) : em.output[n].by = i}
               IN  /\ Cardinality(lines) = 2
                   /\ \E n \in lines :
                         /\ em.output[n].op = "M3PS"
                         /\ em.output[n].a[1] = (100 * power) \div m
                         /\ em.output[n].b[1] = (255 * power) \div m
                         /\ em.output[n].b[1] \in 0..255
                         /\ n + 1 \in lines
                         /\ em.output[n + 1].op = "M5"
                   /\ i = Len(commands) => ~em.tool_is_ready_to_cut
                   /\ (i < Len(commands) /\ CutDone(i + 1))
                         => LinesBy(em.output, i + 1, "M3") # {}


\* The board side and the unit mode the queue has set when its i-th command
\* is taken, read from the queue alone.
SideAt(i) ==
    LET sides == {k \in 1..(i - 1) : commands[k].type = "SetSide"}
    IN  IF sides = {} THEN "Front" ELSE commands[SetMax(sides)].side

UnitAt(i) ==
    LET modes == {k \in 1..(i - 1) : commands[k].type = "UnitMode"}
    IN  IF modes = {} THEN "Metric" ELSE commands[SetMax(modes)].mode

\* The i-th command is a MoveTo that was taken and wrote nothing.
MoveToSkipped(i) ==
    /\ commands[i].type = "MoveTo"
    /\ i < Len(commands) \/ em.result # "Err"
    /\ \A n \in 1..Len(em.output) : em.output[n].by # i

\* The last G0 or G1 X.. Y.. line written before the i-th command.
LastMoveBefore(i) ==
    SetMax({n \in 1..Len(em.output) :
               em.output[n].by < i /\ em.output[n].op \in {"G0XY", "G1XY"}})

(* C27: whenever the emitter skips a MoveTo because its target is the      *)
(* recorded position, the last G0 or G1 line written before it has the X   *)
(* and Y of that target, mirrored under the board side in force at the     *)
(* MoveTo (and printed in the unit of that line). The emitter violates it: *)
(* SetSide changes the side only, the recorded position is not mirrored,   *)
(* and a MoveTo to the point reached on the other side is skipped.         *)
C27_SkippedMoveToIsThere ==
    \A i \in 1..Len(commands) :
        MoveToSkipped(i)
            => LET line == em.output[LastMoveBefore(i)]
                   unit == UnitAt(line.by)
                   target == commands[i].target
               IN  /\ line.a = MirrorX(SideAt(i), InUnit(unit, target[1]), x_offset)
                   /\ line.b = InUnit(unit, target[2])

\* The i-th command is the include of the stage's shutdown file, spliced
\* after a Cut was written.
ShutdownSpliced(i) ==
    /\ stage.tool_config.shutdown_gcode # <<>>
    /\ commands[i].type = "IncludeFile"
    /\ \E n \in 1..Len(em.output) : em.output[n].by = i
    /\ \E c \in 1..(i - 1) : CutDone(c)

(* C28: in the output of a stage with a shutdown file, the tool is         *)
(* disengaged (M5 for a laser, G0 Z<travel_height> for a spindle) after    *)
(* the G1 line of the stage's last Cut and before the content of the       *)
(* shutdown file. The code violates it: generate_gcode queues the include  *)
(* before EquipTool(None), and the include itself disengages nothing.      *)
C28_DisengagedBeforeShutdown ==
    \A i \in 1..Len(commands) :
        ShutdownSpliced(i)
            => LET last == SetMax({c \in 1..(i - 1) : CutDone(c)})
               IN  \E n \in (G1Of(last) + 1)..Len(em.output) :
                      /\ em.output[n].by < i
                      /\ em.output[n].op \in {"M5", "G0Z"}

(* C29: an end-mill Gerber stage with a pass depth and a travel height     *)
(* above the cut depth performs at least one pass: for a polygon model     *)
(* that is not empty its queue holds a Cut, also when the pass depth is    *)
(* larger than travel height - cut depth. The code violates it: the number *)
(* of passes is the quotient truncated, which is 0 for such a pass depth.  *)
C29_AtLeastOnePass ==
    (/\ phase \in {"emit", "done"}
     /\ stage.job.kind = "EndMill"
     /\ stage.job.pass_depth.some
     /\ stage.job.travel_height > stage.job.cut_depth
     /\ stage.polygon # <<>>)
        => \E n \in 1..Len(gcode) : gcode[n].type = "Cut"

\* The stages of a queue equip their tools: the queue starts with a SetSide
\* and ends with EquipTool(None), every further SetSide follows an
\* EquipTool(None), and before every MoveTo and Cut a laser or a spindle was
\* equipped after the last SetSide.
StagesEquipTools(queue) ==
    /\ queue # <<>>
         => (queue[1].type = "SetSide" /\ queue[Len(queue)] = CmdEquipTool(ToolNone))
    /\ \A i \in 2..Len(queue) :
          queue[i].type = "SetSide" => queue[i - 1] = CmdEquipTool(ToolNone)
    /\ \A i \in 1..Len(queue) :
          queue[i].type \in {"MoveTo", "Cut"}
             => /\ EquippedAt(queue, i).kind \in {"Laser", "Spindle"}
                /\ \E e \in 1..(i - 1) :
                      /\ queue[e].type = "EquipTool"
                      /\ \A k \in e..i : queue[k].type # "SetSide"

(* C30: every queue that build puts together from stages that were planned *)
(* without error is emitted without the error 'No tool is equipped.': the  *)
(* commands of a stage start with SetSide, equip a laser or a spindle      *)
(* before the first MoveTo or Cut of the stage and end with                *)
(* EquipTool(None).                                                        *)
C30_ToolEquippedInEveryStage ==
    /\ em.error # "No tool is equipped."
    /\ phase = "stages" => StagesEquipTools(gcode)
    /\ StagesEquipTools(commands)

\* A queue of two stages, each with a Cut, was emitted without error.
C30_Witness ==
    /\ phase \in {"stages", "returned", "exited"}
    /\ em.result = "Ok"
    /\ \E i, j \in 1..Len(commands) :
          /\ i < j
          /\ commands[i].type = "SetSide" /\ commands[j].type = "SetSide"
          /\ \E c \in (i + 1)..(j - 1) : CutDone(c)
          /\ \E c \in (j + 1)..Len(commands) : CutDone(c)
-----------------------------------------------------------------------------
(* Reading the infill of a planned stage.                                  *)

\* The queue holds a move to one end of the segment followed by the cut of
\* pass k to its other end.
SegmentsPlanned(k, p, q) ==
    {n \in 1..(Len(gcode) - 1) :
        /\ gcode[n].type = "MoveTo"
        /\ gcode[n + 1].type = "Cut"
        /\ gcode[n + 1].pass_index = k
        /\ {gcode[n].target, gcode[n + 1].target} = {p, q}}

\* The maximal runs a..b of samples along the scanline j of pass k at which
\* contains(point) XOR invert is false.
MaximalRuns(k, line, along) ==
    LET point(c) == IF k % 2 = 0 THEN <<along[c], line>> ELSE <<line, along[c]>>
        fill(c) == Contains(stage.polygon, point(c)) = stage.invert
    IN  {r \in (1..Len(along)) \X (1..Len(along)) :
            /\ r[1] <= r[2]
            /\ \A c \in r[1]..r[2] : fill(c)
            /\ r[1] = 1 \/ ~fill(r[1] - 1)
            /\ r[2] = Len(along) \/ ~fill(r[2] + 1)}

(* C20: on every infill scanline, each maximal run of samples at which     *)
(* contains(point) XOR invert is false gives an infill segment from the    *)
(* first to the last sample of the run, a run that reaches the last sample *)
(* of the scanline included: the planned queue holds the segment. (A ring  *)
(* of the outline may trace the same segment once more.) The code violates *)
(* it: a run is pushed only when a later sample of the scanline ends it.   *)
C20_EveryRunGivesASegment ==
    (Planned /\ stage.generate_infill /\ stage.polygon # <<>>)
        => LET box == BoundingRect(stage.polygon)
               radius == stage.tool_config.diameter \div 2
               xs == Samples(box[1][1] + radius, box[2][1], radius)
               ys == Samples(box[1][2] + radius, box[2][2], radius)
               passes == {gcode[n].pass_index : n \in {m \in 1..Len(gcode) : gcode[m].type = "Cut"}}
           IN  \A k \in passes :
                  LET lines == IF k % 2 = 0 THEN ys ELSE xs
                      along == IF k % 2 = 0 THEN xs ELSE ys
                  IN  \A j \in 1..Len(lines) :
                         \A r \in MaximalRuns(k, lines[j], along) :
                            SegmentsPlanned(
                                k,
                                IF k % 2 = 0 THEN <<along[r[1]], lines[j]>>
                                ELSE <<lines[j], along[r[1]]>>,
                                IF k % 2 = 0 THEN <<along[r[2]], lines[j]>>
                                ELSE <<lines[j], along[r[2]]>>) # {}

-----------------------------------------------------------------------------
(* Specification SpecFn: a function of the planner, of the imaging         *)
(* pipeline or of a parser is applied to arguments drawn from bounded sets.*)

MaxHits == 3

\* DrillFile::generate_gcode on the hits of a drill file, with an end mill.
PlanDrillHits ==
    /\ input.fn = "DrillHits"
    /\ ~result.returned
    /\ result' = [returned |-> TRUE,
                  value |-> drill_generate_gcode(
                                <<>>, [loads |-> TRUE, holes |-> input.holes, paths |-> <<>>],
                                CuttingConfig.job, CuttingConfig.tool, JogSpeed, "forge")]
    /\ UNCHANGED <<emitVars, planVars, buildVars, input>>

\* Mutant of apply_line_selection: `inner` keeps the exteriors, as `outer` does.
apply_line_selection_InnerIsOuter(line_selection, polygon) ==
    IF line_selection = "All" THEN polygon
    ELSE [i \in 1..Len(polygon) |-> [exterior |-> polygon[i].exterior, interiors |-> <<>>]]

\* apply_line_selection, local to GerberFile::generate_gcode.
apply_line_selection(line_selection, polygon) ==
    CASE line_selection = "All" -> polygon
      [] line_selection = "Inner" ->
            Flatten([i \in 1..Len(polygon) |->
                [k \in 1..Len(polygon[i].interiors) |->
                    [exterior |-> polygon[i].interiors[k], interiors |-> <<>>]]])
      [] line_selection = "Outer" ->
            [i \in 1..Len(polygon) |-> [exterior |-> polygon[i].exterior, interiors |-> <<>>]]

ApplyLineSelection ==
    /\ input.fn = "LineSelection"
    /\ ~result.returned
    /\ result' = [returned |-> TRUE,
                  value |-> apply_line_selection(input.line_selection, input.polygon)]
    /\ UNCHANGED <<emitVars, planVars, buildVars, input>>

MaxShapes == 2

\* sin_cos of an angle given in quarter turns: <<sine, cosine>>.
sin_cos(quarter_turns) ==
    LET q == quarter_turns % 4
    IN  <<CASE q = 0 -> 0 [] q = 1 -> 1 [] q = 2 -> 0 [] q = 3 -> -1,
          CASE q = 0 -> 1 [] q = 1 -> 0 [] q = 2 -> -1 [] q = 3 -> 0>>

\* PlottingContext::calculate_transformation_matrix: mirroring * rotation *
\* scaling, as the rows of a 2x2 matrix. The rotation is in quarter turns.
calculate_transformation_matrix(mirroring, rotation, scaling) ==
    LET mirror == CASE mirroring = "None" -> <<1, 1>>
                    [] mirroring = "X" -> <<-1, 1>>
                    [] mirroring = "Y" -> <<1, -1>>
                    [] mirroring = "XAndY" -> <<-1, -1>>
        sc == sin_cos(rotation)
        turn == <<<<sc[2], -sc[1]>>, <<sc[1], sc[2]>>>>
    IN  [r \in 1..2 |-> [c \in 1..2 |-> mirror[r] * turn[r][c] * scaling]]

\* Shape::rectangle without a hole: the starting point is taken as it is,
\* the ends of the four lines are multiplied by the transform.
rectangle(transform, polarity, position, width, height) ==
    LET apply(x, y) == <<transform[1][1] * x + transform[1][2] * y,
                         transform[2][1] * x + transform[2][2] * y>>
        left == position[1] - width \div 2
        right == position[1] + width \div 2
        bottom == position[2] - height \div 2
        top == position[2] + height \div 2
    IN  [polarity |-> polarity,
         starting_point |-> <<right, bottom>>,
         segments |-> <<apply(right, top), apply(left, top),
                        apply(left, bottom), apply(right, bottom)>>]

\* Shape::polygon without a hole: one line to each vertex 1..num_vertices - 1.
\* The rotation is in quarter turns, num_vertices divides 4.
polygon(position, diameter, num_vertices, rotation) ==
    LET angle_per_step == 4 \div num_vertices
        point(angle) == <<position[1] + sin_cos(angle)[2] * diameter,
                          position[2] + sin_cos(angle)[1] * diameter>>
    IN  [polarity |-> "Dark",
         starting_point |-> point(rotation),
         segments |-> [index \in 1..(num_vertices - 1) |->
                          point(rotation + angle_per_step * index)]]

\* Shape::circle, with Shape::add_hole: the shapes pushed. A segment is kept
\* as its end point; the centre of a curve is left out.
circle(transform, polarity, center, diameter, hole_diameter) ==
    LET apply(v) == <<transform[1][1] * v[1] + transform[1][2] * v[2],
                      transform[2][1] * v[1] + transform[2][2] * v[2]>>
        disc(middle, radius, q) ==
            [polarity |-> q,
             starting_point |-> <<middle[1] + radius, middle[2]>>,
             segments |-> <<<<middle[1] - radius, middle[2]>>, <<middle[1] + radius, middle[2]>>>>]
    IN  <<disc(apply(center), diameter \div 2, polarity)>>
          \o (IF hole_diameter = <<>> THEN <<>>
              ELSE <<disc(apply(center), (transform[1][1] * hole_diameter[1]) \div 2, "Clear")>>)

\* Shape::line for a line along an axis (the direction is a unit vector of
\* whole numbers): the outline around the line; a line of no length is a circle.
line(transform, polarity, diameter, from, to) ==
    LET apply(v) == <<transform[1][1] * v[1] + transform[1][2] * v[2],
                      transform[2][1] * v[1] + transform[2][2] * v[2]>>
        sign(v) == IF v < 0 THEN -1 ELSE IF v > 0 THEN 1 ELSE 0
        start == apply(from)
        end == apply(to)
        radius == (transform[1][1] * diameter) \div 2
        perpendicular == <<-sign(start[2] - end[2]) * radius, sign(start[1] - end[1]) * radius>>
    IN  IF start = end THEN circle(transform, polarity, start, diameter, <<>>)
        ELSE <<[polarity |-> polarity,
                starting_point |-> <<start[1] + perpendicular[1], start[2] + perpendicular[2]>>,
                segments |-> <<<<start[1] - perpendicular[1], start[2] - perpendicular[2]>>,
                               <<end[1] - perpendicular[1], end[2] - perpendicular[2]>>,
                               <<end[1] + perpendicular[1], end[2] + perpendicular[2]>>,
                               <<start[1] + perpendicular[1], start[2] + perpendicular[2]>>>>]>>

\* Shape::arch for an arc whose start and end lie on an axis through the
\* centre: the outline around the arc. The two directions trace the same end
\* points with curves of opposite sense.
arch(transform, polarity, diameter, middle, from, to) ==
    LET apply(v) == <<transform[1][1] * v[1] + transform[1][2] * v[2],
                      transform[2][1] * v[1] + transform[2][2] * v[2]>>
        sign(v) == IF v < 0 THEN -1 ELSE IF v > 0 THEN 1 ELSE 0
        abs(v) == IF v < 0 THEN -v ELSE v
        start == apply(from)
        end == apply(to)
        center == apply(middle)
        radius == (transform[1][1] * diameter) \div 2
        starting_direction == <<sign(start[1] - center[1]), sign(start[2] - center[2])>>
        ending_direction == <<sign(end[1] - center[1]), sign(end[2] - center[2])>>
        arc_diameter == abs(start[1] - center[1]) + abs(start[2] - center[2])
        at(direction, distance) == <<center[1] + direction[1] * distance,
                                     center[2] + direction[2] * distance>>
    IN  <<[polarity |-> polarity,
           starting_point |-> at(starting_direction, arc_diameter - radius),
           segments |-> <<at(starting_direction, arc_diameter + radius),
                          at(ending_direction, arc_diameter + radius),
                          at(ending_direction, arc_diameter - radius),
                          at(starting_direction, arc_diameter - radius)>>]>>

\* Mutant of separator_function: a subloop of two segments is pushed as a
\* shape too.
separator_function_KeepsConnector(polarity, state, end) ==
    LET key == state.starting_point
        found == key \in DOMAIN state.repeatable_segments
        starting_index == state.repeatable_segments[key]
        collected == state.collected_segments
        drained == SubSeq(collected, starting_index + 1, Len(collected))
        kept == IF found THEN SubSeq(collected, 1, starting_index) ELSE collected
        inverse == IF polarity = "Dark" THEN "Clear" ELSE "Dark"
        subloop == [polarity |-> inverse, starting_point |-> collected[starting_index],
                    segments |-> drained]
    IN  IF state.panicked THEN state
        ELSE IF found /\ (starting_index = 0 \/ starting_index > Len(collected))
        THEN [state EXCEPT !.panicked = TRUE]
        ELSE [starting_point |-> end,
              repeatable_segments |->
                  [p \in DOMAIN state.repeatable_segments \cup {key} |->
                      IF p = key THEN Len(kept) ELSE state.repeatable_segments[p]],
              collected_segments |-> kept,
              shapes |-> IF found /\ Len(drained) > 1
                         THEN Append(state.shapes, subloop) ELSE state.shapes,
              panicked |-> FALSE]

\* separator_function, on the state convert_to_geo_polygon keeps between the
\* segments of a shape: repeatable_segments maps the point a segment started
\* at to the number of segments collected when it started (every segment is
\* kept as a line, whose descriptor is its own inverse). A segment that starts
\* where an earlier one started closes a subloop, which is drained from the
\* collected segments and pushed as a shape of inverted polarity when it has
\* more than two segments. The access collected_segments[starting_index - 1]
\* panics when the index is 0 or lies behind the collected segments.
separator_function(polarity, state, end) ==
    LET key == state.starting_point
        found == key \in DOMAIN state.repeatable_segments
        starting_index == state.repeatable_segments[key]
        collected == state.collected_segments
        drained == SubSeq(collected, starting_index + 1, Len(collected))
        kept == IF found THEN SubSeq(collected, 1, starting_index) ELSE collected
        inverse == IF polarity = "Dark" THEN "Clear" ELSE "Dark"
        subloop == [polarity |-> inverse, starting_point |-> collected[starting_index],
                    segments |-> drained]
    IN  IF state.panicked THEN state
        ELSE IF found /\ (starting_index = 0 \/ starting_index > Len(collected))
        THEN [state EXCEPT !.panicked = TRUE]
        ELSE [starting_point |-> end,
              repeatable_segments |->
                  [p \in DOMAIN state.repeatable_segments \cup {key} |->
                      IF p = key THEN Len(kept) ELSE state.repeatable_segments[p]],
              collected_segments |-> kept,
              shapes |-> IF found /\ Len(drained) > 2
                         THEN Append(state.shapes, subloop) ELSE state.shapes,
              panicked |-> FALSE]

\* Shape::convert_to_geo_polygon: the segments are separated into subloops
\* and the outer shape, which is what is left of the collected segments;
\* lines that extend the line before them are merged into it, and every shape
\* becomes a ring (Polygon::new closes it): the outer shape the exterior, the
\* subloops the interiors. A panic of separator_function ends the conversion
\* without a polygon.
convert_to_geo_polygon(shape) ==
    LET first == [starting_point |-> shape.starting_point, repeatable_segments |-> <<>>,
                  collected_segments |-> <<>>, shapes |-> <<>>, panicked |-> FALSE]
        RECURSIVE separate(_, _)
        separate(state, k) ==
            IF k > Len(shape.segments) THEN state
            ELSE LET after == separator_function(shape.polarity, state, shape.segments[k])
                 IN  separate(IF after.panicked THEN after
                              ELSE [after EXCEPT !.collected_segments =
                                       Append(@, shape.segments[k])], k + 1)
        separated == separate(first, 1)
        SameDirection(a, b, c) ==
            /\ (b[1] - a[1]) * (c[2] - b[2]) = (b[2] - a[2]) * (c[1] - b[1])
            /\ (b[1] - a[1]) * (c[1] - b[1]) + (b[2] - a[2]) * (c[2] - b[2]) > 0
        RECURSIVE merged(_, _, _)
        merged(start, segments, done) ==
            IF segments = <<>> THEN done
            ELSE LET next == Head(segments)
                     from == IF Len(done) >= 2 THEN done[Len(done) - 1] ELSE start
                 IN  IF done # <<>> /\ SameDirection(from, done[Len(done)], next)
                     THEN merged(start, Tail(segments), [done EXCEPT ![Len(done)] = next])
                     ELSE merged(start, Tail(segments), Append(done, next))
        ring(s) ==
            LET points == <<s.starting_point>> \o merged(s.starting_point, s.segments, <<>>)
            IN  IF points[Len(points)] = points[1] THEN points
                ELSE Append(points, points[1])
        outer == [polarity |-> shape.polarity, starting_point |-> shape.starting_point,
                  segments |-> separated.collected_segments]
    IN  IF separated.panicked THEN [panicked |-> TRUE]
        ELSE [exterior |-> ring(outer),
              interiors |-> [h \in 1..Len(separated.shapes) |-> ring(separated.shapes[h])]]

\* The polygon model GerberFile::generate_gcode builds from the imaged shapes:
\* every shape is converted and pushed, whatever its polarity; the polygons
\* are offset by the tool radius, or merged as they are when inverted. Merged
\* polygons are kept as overlapping polygons, which contain the same points;
\* the offset of a rectangle is the rectangle grown by the radius.
PolygonModelOf(shapes, line_selection, invert, radius) ==
    LET converted == [i \in 1..Len(shapes) |-> convert_to_geo_polygon(shapes[i])]
        selected == apply_line_selection(line_selection, converted)
        grown(ring) ==
            LET box == BoundingRect(<<[exterior |-> ring, interiors |-> <<>>]>>)
            IN  <<<<box[1][1] - radius, box[1][2] - radius>>,
                  <<box[2][1] + radius, box[1][2] - radius>>,
                  <<box[2][1] + radius, box[2][2] + radius>>,
                  <<box[1][1] - radius, box[2][2] + radius>>,
                  <<box[1][1] - radius, box[1][2] - radius>>>>
    IN  IF invert THEN selected
        ELSE apply_line_selection(
                 line_selection,
                 [i \in 1..Len(selected) |->
                     [exterior |-> grown(selected[i].exterior), interiors |-> <<>>]])

\* GerberFile::generate_gcode, up to the polygon model.
BuildPolygonModel ==
    /\ input.fn = "PolygonModel"
    /\ ~result.returned
    /\ result' = [returned |-> TRUE,
                  value |-> PolygonModelOf(input.shapes, "All", input.invert,
                                           LaserSelection.diameter \div 2)]
    /\ UNCHANGED <<emitVars, planVars, buildVars, input>>

\* Shape::convert_to_geo_polygon, called on one shape.
ConvertShape ==
    /\ input.fn = "Shape"
    /\ ~result.returned
    /\ result' = [returned |-> TRUE, value |-> convert_to_geo_polygon(input.shape)]
    /\ UNCHANGED <<emitVars, planVars, buildVars, input>>

\* The PlottingContext load starts with, and the shapes of the
\* GerberFile it fills.
PlottingContextInit ==
    [aperture_definitions |-> <<>>, current_point |-> <<0, 0>>, current_aperture |-> 0,
     draw_mode |-> "Linear", polarity |-> "Dark", mirroring |-> "None", rotation |-> 0,
     scaling |-> 1, shapes |-> <<>>, failed |-> FALSE]

\* Mutant of OperationPlot: the current point is moved before the aperture
\* is looked at.
OperationPlot_MovesFirst(plot, command, offset) ==
    LET next_point == <<command.x + offset[1], command.y + offset[2]>>
        transform == calculate_transformation_matrix(plot.mirroring, plot.rotation, plot.scaling)
        aperture == plot.aperture_definitions[plot.current_aperture]
        center == <<plot.current_point[1] + command.i[1], plot.current_point[2] + command.j[1]>>
        moved == [plot EXCEPT !.current_point = next_point]
    IN  IF plot.current_aperture \notin DOMAIN plot.aperture_definitions
        THEN [moved EXCEPT !.failed = TRUE]
        ELSE IF aperture.template # "Circle" \/ aperture.hole_diameter # <<>>
        THEN [moved EXCEPT !.failed = TRUE]
        ELSE IF plot.draw_mode = "Linear"
        THEN [moved EXCEPT !.shapes = @ \o line(transform, plot.polarity, aperture.diameter,
                                                 plot.current_point, next_point)]
        ELSE IF command.i = <<>> \/ command.j = <<>>
        THEN [moved EXCEPT !.failed = TRUE]
        ELSE [moved EXCEPT !.shapes = @ \o arch(transform, plot.polarity, aperture.diameter,
                                                 center, plot.current_point, next_point)]

\* Operation::Plot outside a region: the line or arc from the current point
\* to the next point is drawn with the current aperture, a circle without a
\* hole; i and j are Options (<<>> or <<v>>).
OperationPlot(plot, command, offset) ==
    LET next_point == <<command.x + offset[1], command.y + offset[2]>>
        transform == calculate_transformation_matrix(plot.mirroring, plot.rotation, plot.scaling)
        aperture == plot.aperture_definitions[plot.current_aperture]
        center == <<plot.current_point[1] + command.i[1], plot.current_point[2] + command.j[1]>>
    IN  IF plot.current_aperture \notin DOMAIN plot.aperture_definitions
        THEN [plot EXCEPT !.failed = TRUE]
        ELSE IF aperture.template # "Circle" \/ aperture.hole_diameter # <<>>
        THEN [plot EXCEPT !.failed = TRUE]
        ELSE IF plot.draw_mode = "Linear"
        THEN [plot EXCEPT !.current_point = next_point,
                          !.shapes = @ \o line(transform, plot.polarity, aperture.diameter,
                                               plot.current_point, next_point)]
        ELSE IF command.i = <<>> \/ command.j = <<>>
        THEN [plot EXCEPT !.failed = TRUE]
        ELSE [plot EXCEPT !.current_point = next_point,
                          !.shapes = @ \o arch(transform, plot.polarity, aperture.diameter,
                                               center, plot.current_point, next_point)]

\* PlottingContext::process_operation, one operation inside a region: a Plot
\* pushes a segment that ends at its target (a curve needs I and J) and moves
\* the current point there, a Move moves the current point only, a mode is
\* kept, and any other operation is an error.
process_operation(plot, shape, operation, offset) ==
    LET next_point == <<operation.x + offset[1], operation.y + offset[2]>>
        failed == [plot |-> [plot EXCEPT !.failed = TRUE], shape |-> shape]
    IN  CASE operation.operation = "Plot" ->
                IF plot.draw_mode # "Linear" /\ (operation.i = <<>> \/ operation.j = <<>>)
                THEN failed
                ELSE [plot |-> [plot EXCEPT !.current_point = next_point],
                      shape |-> [shape EXCEPT !.segments = Append(@, next_point)]]
          [] operation.operation = "Move" ->
                [plot |-> [plot EXCEPT !.current_point = next_point], shape |-> shape]
          [] operation.operation = "LinearMode" ->
                [plot |-> [plot EXCEPT !.draw_mode = "Linear"], shape |-> shape]
          [] operation.operation = "ClockwiseMode" ->
                [plot |-> [plot EXCEPT !.draw_mode = "Clockwise"], shape |-> shape]
          [] operation.operation = "CounterClockwiseMode" ->
                [plot |-> [plot EXCEPT !.draw_mode = "CounterClockwise"], shape |-> shape]
          [] OTHER -> failed

RECURSIVE process_command(_, _, _)
RECURSIVE process_commands(_, _)

\* The loops over commands: each step is a command and the offset it is
\* processed with; the first error ends the loop.
process_commands(plot, steps) ==
    IF steps = <<>> \/ plot.failed THEN plot
    ELSE process_commands(process_command(plot, steps[1].command, steps[1].offset),
                          Tail(steps))

\* PlottingContext::process_command for the commands that define and select
\* apertures, load the graphics state, flash, draw a region of lines, and
\* step and repeat. Coordinates are the internalized values.
process_command(plot, command, offset) ==
    LET at(off, cs) == [k \in 1..Len(cs) |-> [command |-> cs[k], offset |-> off]]
        push(shape) == Append(plot.shapes, shape)
        define(identity, definition) ==
            IF identity >= 10
            THEN [plot EXCEPT !.aperture_definitions =
                                  [a \in DOMAIN @ \cup {identity} |->
                                      IF a = identity THEN definition ELSE @[a]]]
            ELSE [plot EXCEPT !.failed = TRUE]
    IN  CASE command.cmd = "SetAperture" ->
                IF command.index \in DOMAIN plot.aperture_definitions
                THEN [plot EXCEPT !.current_aperture = command.index]
                ELSE [plot EXCEPT !.failed = TRUE]
          [] command.cmd = "ApertureDefine" -> define(command.identity, command.template)
          [] command.cmd = "ApertureBlock" ->
                define(command.identity, [template |-> "Block", commands |-> command.commands])
          [] command.cmd = "LoadPolarity" -> [plot EXCEPT !.polarity = command.value]
          [] command.cmd = "LoadMirroring" -> [plot EXCEPT !.mirroring = command.value]
          [] command.cmd = "LoadRotation" -> [plot EXCEPT !.rotation = command.value]
          [] command.cmd = "LoadScaling" -> [plot EXCEPT !.scaling = command.value]
          [] command.cmd \in {"LinearMode", "ClockwiseMode", "CounterClockwiseMode"} ->
                [plot EXCEPT !.draw_mode = CASE command.cmd = "LinearMode" -> "Linear"
                                             [] command.cmd = "ClockwiseMode" -> "Clockwise"
                                             [] OTHER -> "CounterClockwise"]
          [] command.cmd = "Move" ->
                [plot EXCEPT !.current_point = <<command.x + offset[1], command.y + offset[2]>>]
          [] command.cmd = "Plot" -> OperationPlot(plot, command, offset)
          [] command.cmd = "Flash" ->
                LET current_point == <<command.x + offset[1], command.y + offset[2]>>
                    moved == [plot EXCEPT !.current_point = current_point]
                    transform == calculate_transformation_matrix(
                                     plot.mirroring, plot.rotation, plot.scaling)
                IN  IF plot.current_aperture \notin DOMAIN plot.aperture_definitions
                    THEN [moved EXCEPT !.failed = TRUE]
                    ELSE LET aperture == plot.aperture_definitions[plot.current_aperture]
                         IN (CASE aperture.template = "Circle" ->
                                     [moved EXCEPT !.shapes =
                                         @ \o circle(transform, plot.polarity, current_point,
                                                     aperture.diameter, aperture.hole_diameter)]
                               [] aperture.template = "Rectangle" ->
                                     [moved EXCEPT !.shapes =
                                         push(rectangle(transform, plot.polarity, current_point,
                                                        aperture.width, aperture.height))]
                               [] aperture.template = "Polygon" ->
                                     [moved EXCEPT !.shapes =
                                         push(polygon(current_point, aperture.diameter,
                                                      aperture.num_vertices, aperture.rotation))]
                               [] aperture.template = "Block" ->
                                     process_commands(moved, at(offset, aperture.commands)))
          [] command.cmd = "Region" ->
                IF command.operations = <<>> \/ command.operations[1].operation # "Move"
                THEN [plot EXCEPT !.failed = TRUE]
                ELSE LET starting_point == <<command.operations[1].x, command.operations[1].y>>
                         RECURSIVE operate(_, _)
                         operate(state, operations) ==
                             IF operations = <<>> \/ state.plot.failed THEN state
                             ELSE operate(process_operation(state.plot, state.shape,
                                                            Head(operations), offset),
                                          Tail(operations))
                         done == operate([plot |-> [plot EXCEPT !.current_point = starting_point],
                                          shape |-> [polarity |-> plot.polarity,
                                                     starting_point |-> starting_point,
                                                     segments |-> <<>>]],
                                         Tail(command.operations))
                     IN  IF done.plot.failed THEN done.plot
                         ELSE [done.plot EXCEPT !.shapes = Append(@, done.shape)]
          [] command.cmd = "StepAndRepeat" ->
                LET n == Len(command.commands)
                    cell(t) == (t - 1) \div n
                    lattice(t) == <<(cell(t) \div command.iterations[2]) * command.delta[1],
                                    (cell(t) % command.iterations[2]) * command.delta[2]>>
                IN  process_commands(
                        plot,
                        [t \in 1..(command.iterations[1] * command.iterations[2] * n) |->
                            [command |-> command.commands[((t - 1) % n) + 1],
                             offset |-> lattice(t)]])

\* load: every command of the file is processed with no offset.
load(file) ==
    process_commands(PlottingContextInit,
                     [k \in 1..Len(file) |-> [command |-> file[k], offset |-> <<0, 0>>]])

LoadGerber ==
    /\ input.fn = "Gerber"
    /\ ~result.returned
    /\ result' = [returned |-> TRUE, value |-> load(input.commands)]
    /\ UNCHANGED <<emitVars, planVars, buildVars, input>>

\* Format::internalize_coordinate_from_float: millimetres from the unit of
\* the file. The coordinate counts 10^-decimal_digits of the file's unit
\* (millimetres, or mils as the code reads imperial files); the result counts
\* 10^-(decimal_digits + 4) millimetres.
internalize_coordinate_from_float(format, coordinate) ==
    IF format.unit_mode = "Metric" THEN coordinate * 10000 ELSE coordinate * 254

\* Format::internalize_coordinate_from_span: a coordinate is a sequence of
\* characters; str::parse::<i32> takes an optional sign and at least one digit.
internalize_coordinate_from_span(format, coordinate) ==
    LET digit(c) == CASE c = "0" -> 0 [] c = "1" -> 1 [] c = "2" -> 2 [] c = "3" -> 3
                      [] c = "4" -> 4 [] c = "5" -> 5 [] c = "6" -> 6 [] c = "7" -> 7
                      [] c = "8" -> 8 [] c = "9" -> 9
        RECURSIVE digits(_)
        digits(s) == IF s = <<>> THEN 0 ELSE 10 * digits(SubSeq(s, 1, Len(s) - 1)) + digit(s[Len(s)])
        RECURSIVE pow10(_)
        pow10(n) == IF n = 0 THEN 1 ELSE 10 * pow10(n - 1)
        parse(s) ==
            LET signed == s # <<>> /\ s[1] \in {"-", "+"}
                body == IF signed THEN Tail(s) ELSE s
            IN  IF body = <<>> \/ \E k \in 1..Len(body) : body[k] \in {"-", "+"}
                THEN [ok |-> FALSE]
                ELSE [ok |-> TRUE,
                      value |-> IF signed /\ s[1] = "-" THEN -digits(body) ELSE digits(body)]
        abs(v) == IF v < 0 THEN -v ELSE v
        signum(v) == IF v < 0 THEN -1 ELSE IF v > 0 THEN 1 ELSE 0
        split == Max(Len(coordinate) - format.decimal_digits, 0)
        decimal == parse(SubSeq(coordinate, split + 1, Len(coordinate)))
        integer == IF split > 0 THEN parse(SubSeq(coordinate, 1, split))
                   ELSE [ok |-> TRUE, value |-> 0]
    IN  IF ~decimal.ok \/ ~integer.ok THEN [ok |-> FALSE]
        ELSE [ok |-> TRUE,
              value |-> internalize_coordinate_from_float(
                            format,
                            signum(integer.value)
                                * (abs(integer.value) * pow10(format.decimal_digits)
                                     + abs(decimal.value)))]

InternalizeCoordinate ==
    /\ input.fn = "Coordinate"
    /\ ~result.returned
    /\ result' = [returned |-> TRUE,
                  value |-> internalize_coordinate_from_span(input.format, input.coordinate)]
    /\ UNCHANGED <<emitVars, planVars, buildVars, input>>

MaxDigits == 3
MaxDecimalDigits == 2

RECURSIVE parse_expression(_)

\* parse_expression of the aperture macro parser, with parse_term and
\* parse_factor nested in it. The input is a sequence of tokens [t, v]: a
\* constant, a variable, a parenthesis or an operator; the result holds the
\* expression and the input left over. After the first term, a '-' or '+'
\* followed by a term yields UnaryMinus or UnaryPlus of that term alone.
parse_expression(input_tokens) ==
    LET failed == [ok |-> FALSE]
        next(s, chars) == s # <<>> /\ s[1].t \in chars
        parse_factor(s) ==
            IF next(s, {"("})
            THEN LET inner == parse_expression(Tail(s))
                 IN  IF inner.ok /\ next(inner.rest, {")"})
                     THEN [ok |-> TRUE, rest |-> Tail(inner.rest),
                           value |-> [node |-> "Parenthesis", a |-> inner.value]]
                     ELSE failed
            ELSE IF next(s, {"Variable", "Const"})
                 THEN [ok |-> TRUE, rest |-> Tail(s), value |-> [node |-> s[1].t, v |-> s[1].v]]
                 ELSE failed
        RECURSIVE fold_factors(_, _)
        fold_factors(term, s) ==
            LET factor == IF next(s, {"*", "/"}) THEN parse_factor(Tail(s)) ELSE failed
            IN  IF ~factor.ok THEN [ok |-> TRUE, rest |-> s, value |-> term]
                ELSE fold_factors([node |-> IF s[1].t = "*" THEN "Multiply" ELSE "Divide",
                                   a |-> term, b |-> factor.value],
                                  factor.rest)
        parse_term(s) ==
            LET first_factor == parse_factor(s)
            IN  IF ~first_factor.ok THEN failed
                ELSE fold_factors([node |-> "Factor", a |-> first_factor.value],
                                  first_factor.rest)
        RECURSIVE fold_terms(_, _)
        fold_terms(expression, s) ==
            LET term == IF next(s, {"+", "-"}) THEN parse_term(Tail(s)) ELSE failed
            IN  IF ~term.ok THEN [ok |-> TRUE, rest |-> s, value |-> expression]
                ELSE fold_terms([node |-> IF s[1].t = "+" THEN "Addition" ELSE "Subtraction",
                                 a |-> expression, b |-> term.value],
                                term.rest)
        first_term == parse_term(input_tokens)
        unary(char) == IF first_term.ok /\ next(first_term.rest, {char})
                       THEN parse_term(Tail(first_term.rest))
                       ELSE failed
    IN  IF ~first_term.ok THEN failed
        ELSE IF unary("-").ok
             THEN [ok |-> TRUE, rest |-> unary("-").rest,
                   value |-> [node |-> "UnaryMinus", a |-> unary("-").value]]
        ELSE IF unary("+").ok
             THEN [ok |-> TRUE, rest |-> unary("+").rest,
                   value |-> [node |-> "UnaryPlus", a |-> unary("+").value]]
        ELSE fold_terms([node |-> "Term", a |-> first_term.value], first_term.rest)

RECURSIVE evaluate(_, _)

\* MacroExpression::evaluate, MacroTerm::evaluate and MacroFactor::evaluate.
\* A value is a fraction <<numerator, denominator>>; every variable of the
\* expression has an argument.
evaluate(expression, arguments) ==
    LET a == evaluate(expression.a, arguments)
        b == evaluate(expression.b, arguments)
    IN  CASE expression.node \in {"UnaryPlus", "Term", "Factor", "Parenthesis"} -> a
          [] expression.node = "UnaryMinus" -> <<-a[1], a[2]>>
          [] expression.node = "Addition" -> <<a[1] * b[2] + b[1] * a[2], a[2] * b[2]>>
          [] expression.node = "Subtraction" -> <<a[1] * b[2] - b[1] * a[2], a[2] * b[2]>>
          [] expression.node = "Multiply" -> <<a[1] * b[1], a[2] * b[2]>>
          [] expression.node = "Divide" -> <<a[1] * b[2], a[2] * b[1]>>
          [] expression.node = "Const" -> <<expression.v, 1>>
          [] expression.node = "Variable" -> <<arguments[expression.v], 1>>

\* An expression of an aperture macro is parsed, then evaluated with the
\* arguments of the flash.
EvaluateMacroExpression ==
    /\ input.fn = "MacroExpression"
    /\ ~result.returned
    /\ result' = LET parsed == parse_expression(input.expression)
                 IN  IF parsed.ok
                     THEN [returned |-> TRUE, ok |-> TRUE, rest |-> parsed.rest,
                           value |-> evaluate(parsed.value, input.arguments)]
                     ELSE [returned |-> TRUE, ok |-> FALSE]
    /\ UNCHANGED <<emitVars, planVars, buildVars, input>>

MaxOperands == 3
MaxOperations == 3

\* parse_drill_command: the alternatives in the order the parser tries them.
\* The input is a sequence of tokens [t, v]: a verb, or a letter with its
\* number. With no alternative matching, the command is an error.
parse_drill_command(input_tokens) ==
    LET tag(names) ==
            /\ Len(input_tokens) >= Len(names)
            /\ \A k \in 1..Len(names) : input_tokens[k].t = names[k]
        value(command) == [ok |-> TRUE, command |-> command, rest |-> Tail(input_tokens)]
        curve(command) ==
            [ok |-> TRUE, command |-> command,
             target |-> <<input_tokens[2].v, input_tokens[3].v>>,
             diameter |-> input_tokens[4].v,
             rest |-> SubSeq(input_tokens, 5, Len(input_tokens))]
    IN  IF tag(<<";">>) THEN value("Comment")
        ELSE IF tag(<<"G90">>) THEN value("AbsoluteMode")
        ELSE IF tag(<<"G90">>) THEN value("IncrementalMode")
        ELSE IF tag(<<"G05">>) THEN value("DrillMode")
        ELSE IF tag(<<"G00">>) THEN value("RouteMode")
        ELSE IF tag(<<"T">>)
             THEN [ok |-> TRUE, command |-> "SelectTool", tool |-> input_tokens[1].v,
                   rest |-> Tail(input_tokens)]
        ELSE IF tag(<<"X", "Y">>)
             THEN [ok |-> TRUE, command |-> "DrillHit",
                   target |-> <<input_tokens[1].v, input_tokens[2].v>>,
                   rest |-> SubSeq(input_tokens, 3, Len(input_tokens))]
        ELSE IF tag(<<"M15">>) THEN value("ToolDown")
        ELSE IF tag(<<"M16">>) THEN value("ToolUp")
        ELSE IF tag(<<"G01", "X", "Y">>)
             THEN [ok |-> TRUE, command |-> "LinearMove",
                   target |-> <<input_tokens[2].v, input_tokens[3].v>>,
                   rest |-> SubSeq(input_tokens, 4, Len(input_tokens))]
        ELSE IF tag(<<"G02", "X", "Y", "A">>) THEN curve("ClockwiseCurve")
        ELSE IF tag(<<"G02", "X", "Y", "A">>) THEN curve("CounterClockwiseCurve")
        ELSE [ok |-> FALSE]

ParseDrillCommand ==
    /\ input.fn = "DrillCommand"
    /\ ~result.returned
    /\ result' = [returned |-> TRUE, value |-> parse_drill_command(input.line)]
    /\ UNCHANGED <<emitVars, planVars, buildVars, input>>

MaxIterations == 2

\* The arguments the functions are applied to.
FnInputs ==
    LET \* Drill hits on one line, so that every Euclidean distance is whole.
        HitPositions == {<<-4, 0>>, <<-2, 0>>, <<1, 0>>, <<3, 0>>}
        DrillHitsInputs ==
            {[fn |-> "DrillHits", holes |-> h] :
                h \in UNION {[1..n -> {[position |-> p, diameter |-> 5] : p \in HitPositions}] :
                                n \in 0..MaxHits}}
        LineSelectionInputs ==
            {[fn |-> "LineSelection", line_selection |-> s, polygon |-> m] :
                s \in {"All", "Inner", "Outer"},
                m \in PolygonModels
                        \cup {<<[exterior |-> Square(0, 8),
                                 interiors |-> <<Square(1, 3), Square(5, 7)>>],
                                [exterior |-> Square(10, 12), interiors |-> <<>>]>>}}
        Identity == calculate_transformation_matrix("None", 0, 1)
        ImagedShapesInputs ==
            {[fn |-> "PolygonModel", shapes |-> s, invert |-> v] :
                s \in UNION {[1..n -> {rectangle(Identity, q, c[1], c[2], c[2]) :
                                          q \in {"Dark", "Clear"},
                                          c \in {<<<<3, 3>>, 6>>, <<<<3, 3>>, 2>>,
                                                 <<<<5, 5>>, 4>>}}] :
                                n \in 1..MaxShapes},
                v \in BOOLEAN}
        SetAperture(i) == [cmd |-> "SetAperture", index |-> i]
        Flash(p) == [cmd |-> "Flash", x |-> p[1], y |-> p[2]]
        Region ==
            [cmd |-> "Region",
             operations |-> <<[operation |-> "Move", x |-> 0, y |-> 0],
                              [operation |-> "Plot", x |-> 2, y |-> 0, i |-> <<>>, j |-> <<>>],
                              [operation |-> "Plot", x |-> 2, y |-> 2, i |-> <<>>, j |-> <<>>],
                              [operation |-> "Plot", x |-> 0, y |-> 0, i |-> <<>>, j |-> <<>>]>>]
        Apertures(block) ==
            <<[cmd |-> "ApertureDefine", identity |-> 10,
               template |-> [template |-> "Rectangle", width |-> 2, height |-> 4]],
              [cmd |-> "ApertureDefine", identity |-> 11,
               template |-> [template |-> "Polygon", diameter |-> 2, num_vertices |-> 4,
                             rotation |-> 0]],
              [cmd |-> "ApertureBlock", identity |-> 12, commands |-> block],
              [cmd |-> "ApertureDefine", identity |-> 13,
               template |-> [template |-> "Circle", diameter |-> 2, hole_diameter |-> <<>>]],
              [cmd |-> "ApertureDefine", identity |-> 14,
               template |-> [template |-> "Circle", diameter |-> 4, hole_diameter |-> <<2>>]]>>
        Bodies == {<<SetAperture(10), Flash(<<1, 1>>)>>, <<Region>>,
                   <<SetAperture(10), Flash(<<1, 1>>), Region>>}
        FlashPoints == {<<0, 0>>, <<4, 0>>, <<2, 3>>}
        FlashInputs ==
            {[fn |-> "Gerber",
              commands |-> Apertures(<<>>)
                           \o <<[cmd |-> "LoadMirroring", value |-> m],
                                [cmd |-> "LoadRotation", value |-> r],
                                [cmd |-> "LoadScaling", value |-> s],
                                SetAperture(a), Flash(p)>>] :
                m \in {"None", "X", "Y", "XAndY"}, r \in 0..3, s \in 1..2,
                a \in {10, 11}, p \in FlashPoints}
        StepAndRepeatInputs ==
            {[fn |-> "Gerber",
              commands |-> Apertures(<<>>)
                           \o <<[cmd |-> "StepAndRepeat", iterations |-> <<ix, iy>>,
                                 delta |-> d, commands |-> b]>>] :
                ix \in 1..MaxIterations, iy \in 1..MaxIterations,
                d \in {<<5, 5>>, <<6, 0>>}, b \in Bodies}
        BlockInputs ==
            {[fn |-> "Gerber",
              commands |-> Apertures(b)
                           \o <<SetAperture(12), Flash(c[1]), SetAperture(12), Flash(c[2])>>] :
                b \in Bodies, c \in FlashPoints \X FlashPoints}
        PlotInputs ==
            {[fn |-> "Gerber",
              commands |-> Apertures(<<>>) \o s
                           \o <<[cmd |-> m], [cmd |-> "Move", x |-> 2, y |-> 0],
                                [cmd |-> "Plot", x |-> p[1], y |-> p[2], i |-> c[1], j |-> c[2]]>>] :
                s \in {<<>>} \cup {<<SetAperture(a)>> : a \in {10, 13, 14}},
                m \in {"LinearMode", "ClockwiseMode", "CounterClockwiseMode"},
                p \in {<<2, 0>>, <<6, 0>>},
                c \in {<<>>, <<2>>} \X {<<>>, <<0>>}}
        CoordinateInputs ==
            {[fn |-> "Coordinate",
              format |-> [decimal_digits |-> d, unit_mode |-> u],
              coordinate |-> s \o c] :
                d \in 1..MaxDecimalDigits, u \in {"Metric", "Imperial"},
                s \in {<<>>, <<"-">>, <<"+">>},
                c \in UNION {[1..n -> {"0", "1", "5"}] : n \in 1..MaxDigits}}
        Operands == {[t |-> "Const", v |-> 2], [t |-> "Const", v |-> 3],
                     [t |-> "Variable", v |-> 1]}
        Operator(c) == [t |-> c, v |-> 0]
        Expressions ==
            UNION {{[k \in 1..(2 * n - 1) |->
                        IF k % 2 = 1 THEN a[(k + 1) \div 2] ELSE Operator(o[k \div 2])] :
                       a \in [1..n -> Operands], o \in [1..(n - 1) -> {"+", "-", "*", "/"}]} :
                      n \in 1..MaxOperands}
              \cup {<<Operator("("), a[1], Operator(o[1]), a[2], Operator(")"),
                      Operator(o[2]), a[3]>> :
                        a \in [1..3 -> Operands], o \in [1..2 -> {"+", "-", "*", "/"}]}
              \cup {<<a[1], Operator(o[1]), Operator("("), a[2], Operator(o[2]), a[3],
                      Operator(")")>> :
                        a \in [1..3 -> Operands],
                        o \in {"+", "-", "*"} \X {"+", "-", "*", "/"}}
        MacroExpressionInputs ==
            {[fn |-> "MacroExpression", expression |-> e, arguments |-> <<6>>] :
                e \in Expressions}
        Verb(v) == [t |-> v, v |-> 0]
        DrillCommandInputs ==
            {[fn |-> "DrillCommand", line |-> l] :
                l \in {<<Verb(v)>> : v \in {";", "G90", "G91", "G05", "G00", "M15", "M16"}}
                        \cup {<<[t |-> "T", v |-> n]>> : n \in 1..2}
                        \cup UNION {{<<[t |-> "X", v |-> x], [t |-> "Y", v |-> y]>>,
                                      <<Verb("G01"), [t |-> "X", v |-> x], [t |-> "Y", v |-> y]>>,
                                      <<Verb("G02"), [t |-> "X", v |-> x], [t |-> "Y", v |-> y],
                                        [t |-> "A", v |-> 4]>>,
                                      <<Verb("G03"), [t |-> "X", v |-> x], [t |-> "Y", v |-> y],
                                        [t |-> "A", v |-> 4]>>} :
                                        x \in 0..1, y \in 0..1}}
        \* Regions: a Move, then up to MaxOperations operations.
        Plot(p, i, j) == [operation |-> "Plot", x |-> p[1], y |-> p[2], i |-> i, j |-> j]
        RegionOperations ==
            {Plot(<<2, 0>>, <<>>, <<>>), Plot(<<2, 2>>, <<0>>, <<2>>),
             [operation |-> "Move", x |-> 4, y |-> 4],
             [operation |-> "Flash", x |-> 1, y |-> 1],
             [operation |-> "ClockwiseMode"], [operation |-> "LinearMode"]}
        RegionInputs ==
            {[fn |-> "Gerber",
              commands |-> <<[cmd |-> "Region",
                              operations |-> <<[operation |-> "Move", x |-> 0, y |-> 0]>> \o o]>>] :
                o \in UNION {[1..n -> RegionOperations] : n \in 1..MaxOperations}}
        \* Contours for convert_to_geo_polygon: a ring of five vertices, one of
        \* them in the middle of an edge, run from any of them; after `before`
        \* segments of the ring a connector leads to the nearest corner of a
        \* hole, whose loop of three or four segments is run in either
        \* direction, and back. `ring` and `loop` are the closed vertex lists
        \* of the two; a contour without `loop` is the ring alone.
        Ring == <<<<0, 0>>, <<4, 0>>, <<8, 0>>, <<8, 8>>, <<0, 8>>>>
        HoleCorners == <<<<3, 3>>, <<5, 3>>, <<5, 5>>, <<3, 5>>>>
        Nearest == <<1, 1, 2, 3, 4>>
        RingAt(s, n) == Ring[((s - 1 + n) % 5) + 1]
        HoleAt(c, d, n) == HoleCorners[((c - 1 + d * n) % 4) + 1]
        Contour(polarity, s, k, d, n) ==
            LET c == Nearest[((s - 1 + k) % 5) + 1]
                around == [j \in 1..n |-> IF j = n THEN HoleCorners[c] ELSE HoleAt(c, d, j)]
                ahead == [j \in 1..k |-> RingAt(s, j)]
                behind == [j \in 1..(5 - k) |-> RingAt(s, k + j)]
            IN  [fn |-> "Shape",
                 shape |-> [polarity |-> polarity, starting_point |-> Ring[s],
                            segments |-> ahead \o <<HoleCorners[c]>> \o around
                                            \o <<RingAt(s, k)>> \o behind],
                 before |-> k,
                 ring |-> <<Ring[s]>> \o [j \in 1..5 |-> RingAt(s, j)],
                 loop |-> <<HoleCorners[c]>> \o around]
        ContourInputs ==
            {Contour(p, s, k, d, n) :
                p \in {"Dark", "Clear"}, s \in 1..5, k \in 0..5, d \in {1, 3}, n \in 3..4}
            \cup {[fn |-> "Shape",
                   shape |-> [polarity |-> "Dark", starting_point |-> Ring[s],
                              segments |-> [j \in 1..5 |-> RingAt(s, j)]],
                   before |-> 5,
                   ring |-> <<Ring[s]>> \o [j \in 1..5 |-> RingAt(s, j)],
                   loop |-> <<>>] : s \in 1..5}
    IN  DrillHitsInputs \cup LineSelectionInputs \cup ImagedShapesInputs
            \cup FlashInputs \cup StepAndRepeatInputs \cup BlockInputs \cup PlotInputs
            \cup CoordinateInputs \cup MacroExpressionInputs \cup DrillCommandInputs
            \cup ContourInputs \cup RegionInputs

-----------------------------------------------------------------------------
(* Reading the planner's order of drill hits.                              *)

\* The Euclidean distance between two points (a whole number on the inputs).
Norm(a, b) == CHOOSE d \in 0..NormSq(a, b) : d * d = NormSq(a, b)

\* The sum of the distances between consecutive points.
RECURSIVE Travel(_)
Travel(points) ==
    IF Len(points) < 2 THEN 0
    ELSE Norm(points[1], points[2]) + Travel(Tail(points))

\* The targets of the MoveTo commands of a queue, in order.
MoveToTargets(queue) ==
    LET moves == SelectSeq(queue, LAMBDA c : c.type = "MoveTo")
    IN  [k \in 1..Len(moves) |-> moves[k].target]

\* The point a hole's ring starts at (the target of its MoveTo).
StartOfHole(hole) ==
    <<hole.position[1] + (hole.diameter - CuttingConfig.tool.diameter \div 2) \div 2,
      hole.position[2]>>

DrillHitsPlanned == input.fn = "DrillHits" /\ result.returned

LineSelected(s) ==
    input.fn = "LineSelection" /\ input.line_selection = s /\ result.returned

(* C12 as stated: for every MultiPolygon, line selection `inner` followed  *)
(* by line selection `outer` gives the empty MultiPolygon, and line        *)
(* selection `all` gives the MultiPolygon itself. The code violates the    *)
(* first part for a MultiPolygon with an interior ring.                    *)
C12_InnerThenOuterIsEmpty ==
    /\ LineSelected("Inner") => apply_line_selection("Outer", result.value) = <<>>
    /\ LineSelected("All") => result.value = input.polygon

(* C12 amended: line selection `inner` gives the interior rings, each as a *)
(* polygon without holes, and a following line selection `outer` leaves    *)
(* them as they are (so the two give the empty MultiPolygon only when no   *)
(* polygon has an interior ring); line selection `all` gives the           *)
(* MultiPolygon itself.                                                    *)
C12_InnerThenOuterIsInner ==
    /\ LineSelected("Inner")
          => /\ apply_line_selection("Outer", result.value) = result.value
             /\ Len(result.value) = SumOfLengths([i \in 1..Len(input.polygon) |->
                                                     input.polygon[i].interiors])
             /\ \A i \in 1..Len(input.polygon) :
                   \A k \in 1..Len(input.polygon[i].interiors) :
                      \E n \in 1..Len(result.value) :
                         result.value[n] = [exterior |-> input.polygon[i].interiors[k],
                                            interiors |-> <<>>]
    /\ LineSelected("All") => result.value = input.polygon

\* `inner` was applied to a MultiPolygon with interior rings.
C12_Witness == LineSelected("Inner") /\ Len(result.value) = 2

\* The point lies inside the outline of the shape.
Covers(shape, point) == InsideRing(point, convert_to_geo_polygon(shape).exterior)

(* C13: a point that is covered by a shape imaged with Clear polarity and  *)
(* by no Dark shape imaged after it is not inside the polygon model that   *)
(* generate_gcode builds. The code violates it: it converts every shape to *)
(* a polygon of the model without looking at its polarity.                 *)
C13_ClearSubtracts ==
    (input.fn = "PolygonModel" /\ result.returned)
        => \A x, y \in 0..7 :
              \A i \in 1..Len(input.shapes) :
                 (/\ input.shapes[i].polarity = "Clear"
                  /\ Covers(input.shapes[i], <<x, y>>)
                  /\ \A k \in (i + 1)..Len(input.shapes) :
                        ~(input.shapes[k].polarity = "Dark"
                            /\ Covers(input.shapes[k], <<x, y>>)))
                    => ~Contains(result.value, <<x, y>>)

\* The shapes a Gerber file was imaged to, once it is loaded without error.
GerberLoaded == input.fn = "Gerber" /\ result.returned /\ ~result.value.failed

(* C14: every shape produced by imaging a Gerber file, under any           *)
(* mirroring, rotation and scaling, is closed: the end of its last segment *)
(* is its starting point. The code violates it: Shape::rectangle leaves    *)
(* the starting point untransformed and Shape::polygon stops one vertex    *)
(* before the starting point.                                              *)
C14_ImagedShapesClosed ==
    GerberLoaded
        => \A i \in 1..Len(result.value.shapes) :
              LET shape == result.value.shapes[i]
              IN  /\ shape.segments # <<>>
                  /\ shape.segments[Len(shape.segments)] = shape.starting_point

\* The shape moved by the vector d.
Translate(shape, d) ==
    [polarity |-> shape.polarity,
     starting_point |-> <<shape.starting_point[1] + d[1], shape.starting_point[2] + d[2]>>,
     segments |-> [k \in 1..Len(shape.segments) |->
                      <<shape.segments[k][1] + d[1], shape.segments[k][2] + d[2]>>]]

LastCommand == input.commands[Len(input.commands)]

\* The commands of the aperture block the input defines.
BlockBody == SelectSeq(input.commands, LAMBDA c : c.cmd = "ApertureBlock")[1].commands

(* C15: a StepAndRepeat with iterations (X, Y) and delta (dx, dy) images   *)
(* its enclosed commands X * Y times, and the shapes of the iteration      *)
(* (i, j) are the shapes the enclosed commands image on their own, moved   *)
(* by (i * dx, j * dy), those of an enclosed region included. The code     *)
(* violates it: the Move that starts a region is resolved without offset.  *)
C15_StepAndRepeatOffsetsEveryCoordinate ==
    (GerberLoaded /\ LastCommand.cmd = "StepAndRepeat")
        => LET base == load(
                           SubSeq(input.commands, 1, Len(input.commands) - 1)
                               \o LastCommand.commands).shapes
               imaged == result.value.shapes
           IN  /\ Len(imaged)
                    = LastCommand.iterations[1] * LastCommand.iterations[2] * Len(base)
               /\ \A i \in 0..(LastCommand.iterations[1] - 1),
                     j \in 0..(LastCommand.iterations[2] - 1) :
                     \A k \in 1..Len(base) :
                        \E n \in 1..Len(imaged) :
                           imaged[n] = Translate(base[k], <<i * LastCommand.delta[1],
                                                            j * LastCommand.delta[2]>>)

(* C16: flashing a block aperture at P images the shapes of the block's    *)
(* commands moved by P, so flashing it at P and at Q gives two sets of     *)
(* shapes that are translates of each other by Q - P. The code violates    *)
(* it: the block's commands are processed with the offset of the enclosing *)
(* command, not with the flash point.                                      *)
C16_BlockFlashTranslates ==
    (GerberLoaded /\ LastCommand.cmd = "Flash" /\ BlockBody # <<>>)
        => LET first == SelectSeq(input.commands, LAMBDA c : c.cmd = "Flash")[1]
               P == <<first.x, first.y>>
               Q == <<LastCommand.x, LastCommand.y>>
               base == load(
                           SelectSeq(input.commands, LAMBDA c : c.cmd = "ApertureDefine")
                             \o BlockBody).shapes
               imaged == result.value.shapes
           IN  /\ Len(imaged) = 2 * Len(base)
               /\ \A k \in 1..Len(base) :
                     /\ imaged[k] = Translate(base[k], P)
                     /\ imaged[Len(base) + k] = Translate(imaged[k], <<Q[1] - P[1], Q[2] - P[2]>>)

\* The value the digits of a coordinate literal denote, read as one number
\* without its sign: integer_part * 10^d + fractional_part.
RECURSIVE DigitsValue(_)
DigitsValue(s) ==
    IF s = <<>> THEN 0
    ELSE 10 * DigitsValue(SubSeq(s, 1, Len(s) - 1))
           + (CHOOSE v \in 0..9 : ToString(v) = s[Len(s)])

(* C17: for a literal of an optional sign and digits, under a format with  *)
(* d decimal digits, internalize_coordinate_from_span returns              *)
(* sign * (integer_part + fractional_part * 10^-d). The code violates it:  *)
(* the sign is the signum of the integer part, so a literal whose integer  *)
(* part is zero or absent gives 0, and one whose integer part is only the  *)
(* sign character is an error.                                             *)
C17_CoordinateValue ==
    (input.fn = "Coordinate" /\ result.returned)
        => LET signed == input.coordinate[1] \in {"-", "+"}
               literal == IF signed THEN Tail(input.coordinate) ELSE input.coordinate
               sign == IF input.coordinate[1] = "-" THEN -1 ELSE 1
           IN  /\ result.value.ok
               /\ result.value.value
                    = internalize_coordinate_from_float(input.format,
                                                        sign * DigitsValue(literal))

\* The arithmetic value of an expression as a fraction: * and / bind tighter
\* than + and -, operators of one rank associate to the left.
ArithmeticValue(tokens, arguments) ==
    LET RECURSIVE expr(_)
        RECURSIVE sums(_, _)
        RECURSIVE products(_, _)
        factor(s) ==
            IF s[1].t = "(" THEN LET inner == expr(Tail(s))
                                 IN  [value |-> inner.value, rest |-> Tail(inner.rest)]
            ELSE [value |-> <<IF s[1].t = "Const" THEN s[1].v ELSE arguments[s[1].v], 1>>,
                  rest |-> Tail(s)]
        products(x, s) ==
            IF s = <<>> \/ s[1].t \notin {"*", "/"} THEN [value |-> x, rest |-> s]
            ELSE LET y == factor(Tail(s))
                 IN  products(IF s[1].t = "*" THEN <<x[1] * y.value[1], x[2] * y.value[2]>>
                              ELSE <<x[1] * y.value[2], x[2] * y.value[1]>>,
                              y.rest)
        term(s) == LET x == factor(s) IN products(x.value, x.rest)
        sums(x, s) ==
            IF s = <<>> \/ s[1].t \notin {"+", "-"} THEN [value |-> x, rest |-> s]
            ELSE LET y == term(Tail(s))
                 IN  sums(IF s[1].t = "+"
                          THEN <<x[1] * y.value[2] + y.value[1] * x[2], x[2] * y.value[2]>>
                          ELSE <<x[1] * y.value[2] - y.value[1] * x[2], x[2] * y.value[2]>>,
                          y.rest)
        expr(s) == LET x == term(s) IN sums(x.value, x.rest)
    IN  expr(tokens).value

(* C18: parsing an aperture-macro expression of non-negative constants,    *)
(* variables, parentheses and + - * /, and evaluating it, yields its       *)
(* arithmetic value under standard precedence and left association. The    *)
(* code violates it: after the first term, "-b" or "+b" is parsed as a     *)
(* unary expression that replaces the first term, so a-b evaluates to -b   *)
(* and a+b*c to b*c.                                                       *)
C18_ExpressionValue ==
    (input.fn = "MacroExpression" /\ result.returned)
        => LET expected == ArithmeticValue(input.expression, input.arguments)
           IN  /\ result.ok
               /\ result.rest = <<>>
               /\ result.value[1] * expected[2] = expected[1] * result.value[2]

(* C19: in the body of a drill file G90 is parsed to AbsoluteMode, G91 to   *)
(* IncrementalMode, G02 to ClockwiseCurve and G03 to CounterClockwiseCurve.*)
(* The code violates it: the parsers of IncrementalMode and of             *)
(* CounterClockwiseCurve look for the tags G90 and G02, which the parsers  *)
(* tried before them have taken, so G91 and G03 are not recognised.        *)
C19_DrillVerbsMapped ==
    (input.fn = "DrillCommand" /\ result.returned)
        => \A verb \in {<<"G90", "AbsoluteMode">>, <<"G91", "IncrementalMode">>,
                        <<"G02", "ClockwiseCurve">>, <<"G03", "CounterClockwiseCurve">>} :
              input.line[1].t = verb[1]
                  => result.value.ok /\ result.value.command = verb[2]

\* The plotting state before the last command of the file.
\* The conversion of a shape ended in a panic.
Panicked == input.fn = "Shape" /\ result.returned /\ "panicked" \in DOMAIN result.value

\* The contour of the input runs along its ring, leaves it for the hole and
\* comes back to continue the ring.
HoleInsideRing == input.fn = "Shape" /\ input.loop # <<>> /\ input.before \in 1..4

\* The points of a ring.
PointsOf(ring) == {ring[n] : n \in 1..Len(ring)}

C26_NoUnderflow == ~Panicked

\* The input is a Gerber file of one region; its operations.
RegionImaged == input.fn = "Gerber" /\ Len(input.commands) = 1 /\ input.commands[1].cmd = "Region"
RegionOperationsOf == input.commands[1].operations

\* The point a region's operations have moved to before the k-th of them.
PointBefore(k) ==
    LET moves == {m \in 1..(k - 1) : RegionOperationsOf[m].operation \in {"Move", "Plot"}}
        last == CHOOSE m \in moves : \A n \in moves : n <= m
    IN  <<RegionOperationsOf[last].x, RegionOperationsOf[last].y>>

\* The point a segment of a shape starts at, as convert_to_geo_line_string
\* walks it: the end of the segment before it, or the starting point.
StartOfSegment(shape, i) == IF i = 1 THEN shape.starting_point ELSE shape.segments[i - 1]

(* C25: a region that is imaged yields exactly one shape, whose i-th       *)
(* segment runs from the current point at the time of the i-th Plot to the *)
(* target of that Plot, also when a Move lies between two Plots; a region  *)
(* with a Flash in it is rejected. The code violates the first part: a     *)
(* Move inside the region moves the current point only, and the segment of *)
(* the next Plot starts at the end of the segment before it.               *)
C25_RegionSegments ==
    (RegionImaged /\ result.returned)
        => LET plots == {k \in 1..Len(RegionOperationsOf) :
                            RegionOperationsOf[k].operation = "Plot"}
               Nth(i) == CHOOSE k \in plots : Cardinality({m \in plots : m <= k}) = i
               shapes == result.value.shapes
           IN  /\ (\E k \in 1..Len(RegionOperationsOf) :
                      RegionOperationsOf[k].operation = "Flash") => result.value.failed
               /\ ~result.value.failed
                    => /\ Len(shapes) = 1
                       /\ Len(shapes[1].segments) = Cardinality(plots)
                       /\ \A i \in 1..Cardinality(plots) :
                             /\ shapes[1].segments[i]
                                  = <<RegionOperationsOf[Nth(i)].x, RegionOperationsOf[Nth(i)].y>>
                             /\ StartOfSegment(shapes[1], i) = PointBefore(Nth(i))

BeforeLast == load(SubSeq(input.commands, 1, Len(input.commands) - 1))

\* The last command is a Plot outside a region that the claim says must fail,
\* and it was processed.
PlotMustFail ==
    /\ input.fn = "Gerber" /\ result.returned
    /\ LastCommand.cmd = "Plot"
    /\ ~BeforeLast.failed
    /\ \/ BeforeLast.current_aperture \notin DOMAIN BeforeLast.aperture_definitions
       \/ BeforeLast.aperture_definitions[BeforeLast.current_aperture].template # "Circle"
       \/ BeforeLast.aperture_definitions[BeforeLast.current_aperture].hole_diameter # <<>>
       \/ /\ BeforeLast.draw_mode # "Linear"
          /\ LastCommand.i = <<>> \/ LastCommand.j = <<>>

(* C22: a Plot outside a region fails, adds no shape and leaves the        *)
(* current point unchanged when no aperture was ever selected, when the    *)
(* current aperture is not a circle or is a circle with a hole, and when   *)
(* it is an arc that lacks I or J.                                         *)
C22_PlotFailsCleanly ==
    PlotMustFail
        => /\ result.value.failed
           /\ result.value.shapes = BeforeLast.shapes
           /\ result.value.current_point = BeforeLast.current_point

\* An arc without J was plotted with a circle aperture to a new point.
C22_Witness ==
    /\ PlotMustFail
    /\ BeforeLast.current_aperture = 13
    /\ BeforeLast.draw_mode = "Clockwise"
    /\ LastCommand.i # <<>> /\ LastCommand.j = <<>>
    /\ <<LastCommand.x, LastCommand.y>> # BeforeLast.current_point
    /\ result.value.failed

(* C23: a coordinate whose decoded value is v is internalised as 25.4 v    *)
(* millimetres when the unit mode is IN, and as v millimetres when it is   *)
(* MM. The decoded value is the one the same literal gives under MM; the   *)
(* result counts 10^-(decimal_digits + 4) millimetres. The code violates   *)
(* it: an imperial value is read as mils, 0.0254 v millimetres.            *)
C23_InchesToMillimetres ==
    (input.fn = "Coordinate" /\ result.returned /\ result.value.ok)
        => LET decoded == internalize_coordinate_from_span(
                              [input.format EXCEPT !.unit_mode = "Metric"],
                              input.coordinate).value \div 10000
           IN  result.value.value = IF input.format.unit_mode = "Imperial"
                                    THEN 254000 * decoded
                                    ELSE 10000 * decoded

InitFn ==
    /\ commands = <<>>
    /\ em = EmitterInit
    /\ x_offset = 0
    /\ PlanIdle
    /\ BuildIdle
    /\ input \in FnInputs
    /\ result = NoResult

NextFn ==
    \/ PlanDrillHits
    \/ ApplyLineSelection
    \/ BuildPolygonModel
    \/ ConvertShape
    \/ LoadGerber
    \/ InternalizeCoordinate
    \/ EvaluateMacroExpression
    \/ ParseDrillCommand

SpecFn == InitFn /\ [][NextFn]_vars

=============================================================================
